---- MODULE Spec2Model ----
(***************************************************************************)
(* State-machine model of s3-manager: the session/authorization gate of    *)
(* app/auth/__init__.py and the virtual-filesystem operations of           *)
(* app/s3/__init__.py running against an S3-compatible object store.       *)
(*                                                                         *)
(* A Python string is modelled as the sequence of its Unicode code points  *)
(* (so "d/r" is <<100, 47, 114>>); S3 lists keys in code-point order.      *)
(***************************************************************************)
EXTENDS Integers, Sequences, FiniteSets, TLC

----------------------------------------------------------------------------
(* Python string primitives used by the handlers                           *)

Slash == 47

\* s.startswith(p)
StartsWith(s, p) ==
    /\ Len(p) <= Len(s)
    /\ \A i \in 1..Len(p) : s[i] = p[i]

\* s.endswith('/')
EndsWithSlash(s) == Len(s) > 0 /\ s[Len(s)] = Slash

RECURSIVE LStrip(_)
LStrip(s) == IF Len(s) > 0 /\ s[1] = Slash THEN LStrip(Tail(s)) ELSE s

RECURSIVE RStrip(_)
RStrip(s) ==
    IF Len(s) > 0 /\ s[Len(s)] = Slash THEN RStrip(SubSeq(s, 1, Len(s) - 1)) ELSE s

\* a variant that leaves trailing slashes in place
Strip_leading_only(s) == LStrip(s)

\* s.strip('/')
Strip(s) == RStrip(LStrip(s))

\* index of the first '/' in s, 0 when there is none
FirstSlash(s) ==
    IF \E i \in 1..Len(s) : s[i] = Slash
    THEN CHOOSE i \in 1..Len(s) : s[i] = Slash /\ \A j \in 1..(i - 1) : s[j] # Slash
    ELSE 0

\* s.split('/', 1)
Split1(s) ==
    LET i == FirstSlash(s) IN
    IF i = 0 THEN <<s>> ELSE <<SubSeq(s, 1, i - 1), SubSeq(s, i + 1, Len(s))>>

\* s.split('/')
RECURSIVE Split(_)
Split(s) ==
    LET i == FirstSlash(s) IN
    IF i = 0 THEN <<s>>
    ELSE <<SubSeq(s, 1, i - 1)>> \o Split(SubSeq(s, i + 1, Len(s)))

\* '/'.join(parts)
RECURSIVE Join(_)
Join(parts) ==
    IF Len(parts) = 0 THEN <<>>
    ELSE IF Len(parts) = 1 THEN parts[1]
    ELSE parts[1] \o <<Slash>> \o Join(Tail(parts))

\* index of the first occurrence of old in s, 0 when there is none
FindFirst(s, old) ==
    LET Occ == {i \in 1..(Len(s) - Len(old) + 1) :
                   \A j \in 1..Len(old) : s[i + j - 1] = old[j]}
    IN IF Occ = {} THEN 0 ELSE CHOOSE i \in Occ : \A k \in Occ : i <= k

\* s.replace(old, new, 1)
Replace1(s, old, new) ==
    LET i == FindFirst(s, old) IN
    IF i = 0 THEN s
    ELSE SubSeq(s, 1, i - 1) \o new \o SubSeq(s, i + Len(old), Len(s))

\* code-point (UTF-8 binary) order on keys, the order of an S3 listing
KeyLess(a, b) ==
    \/ /\ Len(a) < Len(b)
       /\ \A i \in 1..Len(a) : a[i] = b[i]
    \/ \E i \in 1..(IF Len(a) < Len(b) THEN Len(a) ELSE Len(b)) :
          /\ a[i] < b[i]
          /\ \A j \in 1..(i - 1) : a[j] = b[j]

\* 'bucket/prefix' split used by browse, upload, create-folder, delete-folder
ParsePath(virtual_path) ==
    LET path_parts == Split1(virtual_path) IN
    [bucket_name |-> path_parts[1],
     prefix |-> IF Len(path_parts) > 1 THEN path_parts[2] \o <<Slash>> ELSE <<>>]

\* the virtual path the listing gives for a (bucket, prefix) pair:
\* f"{bucket_name}/{folder_prefix.rstrip('/')}"
Serialize(pp) == pp.bucket_name \o <<Slash>> \o RStrip(pp.prefix)

----------------------------------------------------------------------------
(* The S3-compatible object store as seen through the boto3 client.        *)
(* A store maps each existing bucket name to its objects, a sequence of    *)
(* [Key, Body] records kept in key order.  Every client call is appended   *)
(* to the request's call log; a call raises ClientError when its bucket    *)
(* does not exist or the store rejects it, and the call numbered `fault`   *)
(* of the request raises: an error answer of the store (ClientError) or,   *)
(* where the request names the class, another exception such as a lost     *)
(* connection.                                                             *)

\* page size of list_objects_v2 when the caller passes no MaxKeys
S3MaxKeys == 1000

\* keys per delete_objects call in delete_folder
DeleteBatchSize == 1000

NoToken == <<>>

Min(a, b) == IF a < b THEN a ELSE b

KeysOf(objs) == [i \in 1..Len(objs) |-> objs[i].Key]

HasKey(objs, k) == \E i \in 1..Len(objs) : objs[i].Key = k

BodyOf(objs, k) == objs[CHOOSE i \in 1..Len(objs) : objs[i].Key = k].Body

\* PutObject: create or overwrite the object at key k
PutSorted(objs, k, body) ==
    SelectSeq(objs, LAMBDA o : KeyLess(o.Key, k))
        \o <<[Key |-> k, Body |-> body]>>
        \o SelectSeq(objs, LAMBDA o : KeyLess(k, o.Key))

\* DeleteObject / DeleteObjects: remove the named keys, absent keys are ignored
RemoveKeys(objs, keys) == SelectSeq(objs, LAMBDA o : o.Key \notin keys)

\* ListObjectsV2 without delimiter: one page of at most max_keys of the keys
\* under prefix that follow the continuation token
ListPageN(objs, prefix, token, max_keys) ==
    LET matching == SelectSeq(objs, LAMBDA o :
                        /\ StartsWith(o.Key, prefix)
                        /\ (token = NoToken \/ KeyLess(token, o.Key)))
        n == Min(Len(matching), max_keys)
        page == SubSeq(matching, 1, n)
    IN [Contents |-> page,
        IsTruncated |-> Len(matching) > max_keys,
        NextContinuationToken |->
            IF Len(matching) > max_keys THEN page[n].Key ELSE NoToken]

\* the page of a call that passes no MaxKeys
ListPage(objs, prefix, token) == ListPageN(objs, prefix, token, S3MaxKeys)

Ctx0(st) == [store |-> st, log |-> <<>>, err |-> FALSE]

CallRec(op, b, k, n) == [op |-> op, Bucket |-> b, Key |-> k, n |-> n]

\* the call about to be issued raises ClientError
Raises(ctx, fault, b) == Len(ctx.log) + 1 = fault \/ b \notin DOMAIN ctx.store

Failed(ctx, rec) == [ctx EXCEPT !.log = Append(@, rec), !.err = TRUE]

put_object(ctx, fault, b, k, body) ==
    LET rec == CallRec("put_object", b, k, 1) IN
    IF Raises(ctx, fault, b) THEN Failed(ctx, rec)
    ELSE [ctx EXCEPT !.log = Append(@, rec),
                     !.store[b] = PutSorted(@, k, body)]

delete_object(ctx, fault, b, k) ==
    LET rec == CallRec("delete_object", b, k, 1) IN
    IF Raises(ctx, fault, b) THEN Failed(ctx, rec)
    ELSE [ctx EXCEPT !.log = Append(@, rec),
                     !.store[b] = RemoveKeys(@, {k})]

delete_objects(ctx, fault, b, batch) ==
    LET rec == CallRec("delete_objects", b, <<>>, Len(batch)) IN
    IF Raises(ctx, fault, b) THEN Failed(ctx, rec)
    ELSE [ctx EXCEPT !.log = Append(@, rec),
                     !.store[b] = RemoveKeys(@, {batch[i] : i \in 1..Len(batch)})]

\* a variant of the copy that accepts the copy of an object onto itself
copy_object_onto_itself(ctx, fault, b, src, dst) ==
    LET rec == CallRec("copy_object", b, dst, 1) IN
    IF Raises(ctx, fault, b) THEN Failed(ctx, rec)
    ELSE IF ~HasKey(ctx.store[b], src) THEN Failed(ctx, rec)
    ELSE [ctx EXCEPT !.log = Append(@, rec),
                     !.store[b] = PutSorted(@, dst, BodyOf(ctx.store[b], src))]

\* server-side copy inside one bucket, called with Bucket, CopySource and Key
\* only: NoSuchKey when the source is absent, InvalidRequest when the
\* destination is the source, as the request changes neither the metadata
\* nor the storage class of the object
copy_object(ctx, fault, b, src, dst) ==
    LET rec == CallRec("copy_object", b, dst, 1) IN
    IF Raises(ctx, fault, b) THEN Failed(ctx, rec)
    ELSE IF ~HasKey(ctx.store[b], src) \/ src = dst THEN Failed(ctx, rec)
    ELSE [ctx EXCEPT !.log = Append(@, rec),
                     !.store[b] = PutSorted(@, dst, BodyOf(ctx.store[b], src))]

----------------------------------------------------------------------------
(* Request handlers of app/s3/__init__.py.  A handler that issues at most  *)
(* one object-store call is given as an operator from the store before the *)
(* request, the request's fields and the fault index to the store after    *)
(* the request, the log of client calls and the JSON answer.  The handlers *)
(* that issue several calls are given call by call further below.          *)

NoCount == <<>>

BaseResp(op, status, error) ==
    [op |-> op, status |-> status, error |-> error,
     count |-> NoCount, errors |-> <<>>, items |-> <<>>, files |-> <<>>,
     breadcrumbs |-> <<>>, path |-> <<>>, user |-> <<>>,
     truncated |-> <<>>, token |-> <<>>]

Outcome(ctx, resp) == [store |-> ctx.store, log |-> ctx.log, resp |-> resp]

\* a JSON value that is not a string (a number, null), also the value of a
\* field when the request carries no JSON object at all: reading it as a
\* string raises AttributeError
NotAString == <<-1>>

IsString(v) == \A i \in 1..Len(v) : v[i] >= 0

\* the exception class of a call that raises: the injected failure is of the
\* class the request names, a missing bucket or key is a ClientError
Raised(ctx, fault, exc) == IF Len(ctx.log) + 1 = fault THEN exc ELSE "ClientError"

\* GET /buckets.  bucket_order: the buckets in the order the store answers
list_buckets(st, bucket_order, fault) ==
    LET rec == CallRec("list_buckets", <<>>, <<>>, 0) IN
    IF fault = 1
    THEN Outcome(Failed(Ctx0(st), rec),
                 BaseResp("list_buckets", 500, "Failed to list buckets"))
    ELSE Outcome([Ctx0(st) EXCEPT !.log = <<rec>>],
                 [BaseResp("list_buckets", 200, "") EXCEPT
                     !.items = [i \in 1..Len(bucket_order) |->
                                   [name |-> bucket_order[i]]]])

\* a max_keys query parameter whose text is no integer
NotAnInteger == <<0, 0>>

\* GET /buckets/<bucket_name>/objects.  max_keys: <<>> when the query has
\* none, <<n>> for the integer n >= 1, NotAnInteger; continuation_token:
\* NoToken when absent or empty
list_objects(st, bucket_name, prefix, max_keys, continuation_token, fault) ==
    LET n == IF max_keys = <<>> THEN 1000 ELSE max_keys[1]
        rec == CallRec("list_objects_v2", bucket_name, prefix, 0)
        response == ListPageN(st[bucket_name], prefix, continuation_token, n)
    IN IF max_keys = NotAnInteger
       THEN Outcome(Ctx0(st), BaseResp("list_objects", 500, "Internal Server Error"))
       ELSE IF Raises(Ctx0(st), fault, bucket_name)
       THEN Outcome(Failed(Ctx0(st), rec),
                    BaseResp("list_objects", 500, "Failed to list objects"))
       ELSE Outcome([Ctx0(st) EXCEPT !.log = <<rec>>],
                    [BaseResp("list_objects", 200, "") EXCEPT
                        !.items = [i \in 1..Len(response.Contents) |->
                                      [key |-> response.Contents[i].Key,
                                       size |-> Len(response.Contents[i].Body)]],
                        !.truncated = <<response.IsTruncated>>,
                        !.count = <<Len(response.Contents)>>,
                        !.token = IF response.IsTruncated
                                  THEN <<response.NextContinuationToken>>
                                  ELSE <<>>])

\* GET /buckets/<bucket_name>/objects/<object_key>
get_object(st, bucket_name, object_key, fault, exc) ==
    LET rec == CallRec("head_object", bucket_name, object_key, 1) IN
    IF Raises(Ctx0(st), fault, bucket_name) \/ ~HasKey(st[bucket_name], object_key)
    THEN Outcome(Failed(Ctx0(st), rec),
                 BaseResp("get_object",
                          IF Raised(Ctx0(st), fault, exc) = "ClientError"
                          THEN 404 ELSE 500,
                          "Failed to get object"))
    ELSE Outcome([Ctx0(st) EXCEPT !.log = <<rec>>],
                 [BaseResp("get_object", 200, "") EXCEPT
                     !.path = object_key,
                     !.count = <<Len(BodyOf(st[bucket_name], object_key))>>])

\* PUT /buckets/<bucket_name>/objects/<object_key>.  file: <<>> when the
\* request has no part named 'file', <<content>> otherwise
upload_object(st, bucket_name, object_key, file, fault) ==
    LET rec == CallRec("upload_fileobj", bucket_name, object_key, 1) IN
    IF file = <<>>
    THEN Outcome(Ctx0(st), BaseResp("upload_object", 400, "No file provided"))
    ELSE IF Raises(Ctx0(st), fault, bucket_name)
    THEN Outcome(Failed(Ctx0(st), rec),
                 BaseResp("upload_object", 500, "Failed to upload object"))
    ELSE Outcome([Ctx0(st) EXCEPT !.log = <<rec>>,
                                  !.store[bucket_name] = PutSorted(@, object_key, file[1])],
                 [BaseResp("upload_object", 200, "") EXCEPT !.path = object_key])

\* DELETE /buckets/<bucket_name>/objects/<object_key>
delete_object_route(st, bucket_name, object_key, fault) ==
    LET c1 == delete_object(Ctx0(st), fault, bucket_name, object_key) IN
    IF c1.err
    THEN Outcome(c1, BaseResp("delete_object", 500, "Failed to delete object"))
    ELSE Outcome(c1, BaseResp("delete_object", 200, ""))

create_folder(st, path, folderName, fault) ==
    LET virtual_path == Strip(path)
        folder_name == Strip(folderName)
        pp == ParsePath(virtual_path)
        folder_key == pp.prefix \o folder_name \o <<Slash>>
        c1 == put_object(Ctx0(st), fault, pp.bucket_name, folder_key, <<>>)
    IN IF ~IsString(path) \/ ~IsString(folderName)
       THEN Outcome(Ctx0(st), BaseResp("create_folder", 500, "Failed to create folder"))
       ELSE IF folder_name = <<>>
       THEN Outcome(Ctx0(st), BaseResp("create_folder", 400, "Folder name is required"))
       ELSE IF virtual_path = <<>>
       THEN Outcome(Ctx0(st), BaseResp("create_folder", 400, "Cannot create folder in root"))
       ELSE IF c1.err
       THEN Outcome(c1, BaseResp("create_folder", 500, "Failed to create folder"))
       ELSE Outcome(c1, [BaseResp("create_folder", 200, "") EXCEPT
                            !.path = pp.bucket_name \o <<Slash>> \o folder_key])

\* the `while True` listing loop of the folder branch of rename_item
RECURSIVE ListAll(_, _, _, _, _, _)
ListAll(ctx, fault, bucket_name, prefix, continuation_token, acc) ==
    LET rec == CallRec("list_objects_v2", bucket_name, prefix, 0) IN
    IF Raises(ctx, fault, bucket_name) THEN [ctx |-> Failed(ctx, rec), keys |-> acc]
    ELSE
      LET response == ListPage(ctx.store[bucket_name], prefix, continuation_token)
          c1 == [ctx EXCEPT !.log = Append(@, rec)]
          acc1 == acc \o KeysOf(response.Contents)
      IN IF ~response.IsTruncated THEN [ctx |-> c1, keys |-> acc1]
         ELSE ListAll(c1, fault, bucket_name, prefix,
                      response.NextContinuationToken, acc1)

\* the `for obj_key in objects_to_rename` loop of the folder branch
RECURSIVE RenameLoop(_, _, _, _, _, _, _)
RenameLoop(ctx, fault, bucket_name, objects_to_rename, i, prefix, new_key) ==
    IF i > Len(objects_to_rename) THEN ctx
    ELSE
      LET obj_key == objects_to_rename[i]
          new_obj_key == Replace1(obj_key, prefix, new_key)
          c1 == copy_object(ctx, fault, bucket_name, obj_key, new_obj_key)
          c2 == delete_object(c1, fault, bucket_name, obj_key)
      IN IF c1.err THEN c1
         ELSE IF c2.err THEN c2
         ELSE RenameLoop(c2, fault, bucket_name, objects_to_rename, i + 1,
                         prefix, new_key)

\* the folder branch of rename_item, taken when old_key ends with '/'
rename_folder(st, fault, bucket_name, old_key, new_key, new_virtual_path) ==
    LET l == ListAll(Ctx0(st), fault, bucket_name, old_key, NoToken, <<>>)
        f == RenameLoop(l.ctx, fault, bucket_name, l.keys, 1, old_key,
                        new_key \o <<Slash>>)
        Fail500 == BaseResp("rename", 500, "Failed to rename item")
    IN IF l.ctx.err THEN Outcome(l.ctx, Fail500)
       ELSE IF f.err THEN Outcome(f, Fail500)
       ELSE Outcome(f, [BaseResp("rename", 200, "") EXCEPT
                           !.path = new_virtual_path,
                           !.count = <<Len(l.keys)>>])

\* a variant that takes the folder's name for the prefix as it is
FolderPrefix_without_slash(path_parts) == path_parts[2]

\* prefix = path_parts[1] + '/'
FolderPrefix(path_parts) == path_parts[2] \o <<Slash>>

\* ListObjectsV2 with Delimiter='/': the first S3MaxKeys entries under the
\* prefix, keys with a further '/' rolled up into their common prefix
ListPageDelim(objs, prefix) ==
    LET m == SelectSeq(objs, LAMBDA o : StartsWith(o.Key, prefix))
        Rest(k) == SubSeq(k, Len(prefix) + 1, Len(k))
        IsCP(k) == FirstSlash(Rest(k)) # 0
        Entry(k) == IF IsCP(k) THEN SubSeq(k, 1, Len(prefix) + FirstSlash(Rest(k)))
                    ELSE k
        firsts == SelectSeq([i \in 1..Len(m) |-> i], LAMBDA i :
                      i = 1 \/ Entry(m[i].Key) # Entry(m[i - 1].Key))
        page == SubSeq(firsts, 1, Min(Len(firsts), S3MaxKeys))
        cps == SelectSeq(page, LAMBDA i : IsCP(m[i].Key))
        cts == SelectSeq(page, LAMBDA i : ~IsCP(m[i].Key))
    IN [CommonPrefixes |-> [j \in 1..Len(cps) |-> Entry(m[cps[j]].Key)],
        Contents |-> [j \in 1..Len(cts) |-> m[cts[j]]]]

\* the code points above ASCII that str.lower() maps to one other code
\* point, as runs <<first, last, step, offset>>: every step-th code point
\* from first to last is mapped to itself plus offset (Unicode 14, CPython 3.11)
LowerRuns ==
    {<<192, 214, 1, 32>>, <<216, 222, 1, 32>>, <<256, 302, 2, 1>>,
     <<306, 310, 2, 1>>, <<313, 327, 2, 1>>, <<330, 374, 2, 1>>,
     <<376, 376, 1, -121>>, <<377, 381, 2, 1>>, <<385, 385, 1, 210>>,
     <<386, 388, 2, 1>>, <<390, 390, 1, 206>>, <<391, 391, 1, 1>>,
     <<393, 394, 1, 205>>, <<395, 395, 1, 1>>, <<398, 398, 1, 79>>,
     <<399, 399, 1, 202>>, <<400, 400, 1, 203>>, <<401, 401, 1, 1>>,
     <<403, 403, 1, 205>>, <<404, 404, 1, 207>>, <<406, 406, 1, 211>>,
     <<407, 407, 1, 209>>, <<408, 408, 1, 1>>, <<412, 412, 1, 211>>,
     <<413, 413, 1, 213>>, <<415, 415, 1, 214>>, <<416, 420, 2, 1>>,
     <<422, 422, 1, 218>>, <<423, 423, 1, 1>>, <<425, 425, 1, 218>>,
     <<428, 428, 1, 1>>, <<430, 430, 1, 218>>, <<431, 431, 1, 1>>,
     <<433, 434, 1, 217>>, <<435, 437, 2, 1>>, <<439, 439, 1, 219>>,
     <<440, 440, 1, 1>>, <<444, 444, 1, 1>>, <<452, 452, 1, 2>>,
     <<453, 453, 1, 1>>, <<455, 455, 1, 2>>, <<456, 456, 1, 1>>,
     <<458, 458, 1, 2>>, <<459, 475, 2, 1>>, <<478, 494, 2, 1>>,
     <<497, 497, 1, 2>>, <<498, 500, 2, 1>>, <<502, 502, 1, -97>>,
     <<503, 503, 1, -56>>, <<504, 542, 2, 1>>, <<544, 544, 1, -130>>,
     <<546, 562, 2, 1>>, <<570, 570, 1, 10795>>, <<571, 571, 1, 1>>,
     <<573, 573, 1, -163>>, <<574, 574, 1, 10792>>, <<577, 577, 1, 1>>,
     <<579, 579, 1, -195>>, <<580, 580, 1, 69>>, <<581, 581, 1, 71>>,
     <<582, 590, 2, 1>>, <<880, 882, 2, 1>>, <<886, 886, 1, 1>>,
     <<895, 895, 1, 116>>, <<902, 902, 1, 38>>, <<904, 906, 1, 37>>,
     <<908, 908, 1, 64>>, <<910, 911, 1, 63>>, <<913, 929, 1, 32>>,
     <<931, 939, 1, 32>>, <<975, 975, 1, 8>>, <<984, 1006, 2, 1>>,
     <<1012, 1012, 1, -60>>, <<1015, 1015, 1, 1>>, <<1017, 1017, 1, -7>>,
     <<1018, 1018, 1, 1>>, <<1021, 1023, 1, -130>>, <<1024, 1039, 1, 80>>,
     <<1040, 1071, 1, 32>>, <<1120, 1152, 2, 1>>, <<1162, 1214, 2, 1>>,
     <<1216, 1216, 1, 15>>, <<1217, 1229, 2, 1>>, <<1232, 1326, 2, 1>>,
     <<1329, 1366, 1, 48>>, <<4256, 4293, 1, 7264>>, <<4295, 4295, 1, 7264>>,
     <<4301, 4301, 1, 7264>>, <<5024, 5103, 1, 38864>>, <<5104, 5109, 1, 8>>,
     <<7312, 7354, 1, -3008>>, <<7357, 7359, 1, -3008>>,
     <<7680, 7828, 2, 1>>, <<7838, 7838, 1, -7615>>, <<7840, 7934, 2, 1>>,
     <<7944, 7951, 1, -8>>, <<7960, 7965, 1, -8>>, <<7976, 7983, 1, -8>>,
     <<7992, 7999, 1, -8>>, <<8008, 8013, 1, -8>>, <<8025, 8031, 2, -8>>,
     <<8040, 8047, 1, -8>>, <<8072, 8079, 1, -8>>, <<8088, 8095, 1, -8>>,
     <<8104, 8111, 1, -8>>, <<8120, 8121, 1, -8>>, <<8122, 8123, 1, -74>>,
     <<8124, 8124, 1, -9>>, <<8136, 8139, 1, -86>>, <<8140, 8140, 1, -9>>,
     <<8152, 8153, 1, -8>>, <<8154, 8155, 1, -100>>, <<8168, 8169, 1, -8>>,
     <<8170, 8171, 1, -112>>, <<8172, 8172, 1, -7>>, <<8184, 8185, 1, -128>>,
     <<8186, 8187, 1, -126>>, <<8188, 8188, 1, -9>>,
     <<8486, 8486, 1, -7517>>, <<8490, 8490, 1, -8383>>,
     <<8491, 8491, 1, -8262>>, <<8498, 8498, 1, 28>>, <<8544, 8559, 1, 16>>,
     <<8579, 8579, 1, 1>>, <<9398, 9423, 1, 26>>, <<11264, 11311, 1, 48>>,
     <<11360, 11360, 1, 1>>, <<11362, 11362, 1, -10743>>,
     <<11363, 11363, 1, -3814>>, <<11364, 11364, 1, -10727>>,
     <<11367, 11371, 2, 1>>, <<11373, 11373, 1, -10780>>,
     <<11374, 11374, 1, -10749>>, <<11375, 11375, 1, -10783>>,
     <<11376, 11376, 1, -10782>>, <<11378, 11378, 1, 1>>,
     <<11381, 11381, 1, 1>>, <<11390, 11391, 1, -10815>>,
     <<11392, 11490, 2, 1>>, <<11499, 11501, 2, 1>>, <<11506, 11506, 1, 1>>,
     <<42560, 42604, 2, 1>>, <<42624, 42650, 2, 1>>, <<42786, 42798, 2, 1>>,
     <<42802, 42862, 2, 1>>, <<42873, 42875, 2, 1>>,
     <<42877, 42877, 1, -35332>>, <<42878, 42886, 2, 1>>,
     <<42891, 42891, 1, 1>>, <<42893, 42893, 1, -42280>>,
     <<42896, 42898, 2, 1>>, <<42902, 42920, 2, 1>>,
     <<42922, 42922, 1, -42308>>, <<42923, 42923, 1, -42319>>,
     <<42924, 42924, 1, -42315>>, <<42925, 42925, 1, -42305>>,
     <<42926, 42926, 1, -42308>>, <<42928, 42928, 1, -42258>>,
     <<42929, 42929, 1, -42282>>, <<42930, 42930, 1, -42261>>,
     <<42931, 42931, 1, 928>>, <<42932, 42946, 2, 1>>,
     <<42948, 42948, 1, -48>>, <<42949, 42949, 1, -42307>>,
     <<42950, 42950, 1, -35384>>, <<42951, 42953, 2, 1>>,
     <<42960, 42960, 1, 1>>, <<42966, 42968, 2, 1>>, <<42997, 42997, 1, 1>>,
     <<65313, 65338, 1, 32>>, <<66560, 66599, 1, 40>>,
     <<66736, 66771, 1, 40>>, <<66928, 66964, 2, 39>>,
     <<66929, 66938, 1, 39>>, <<66941, 66954, 1, 39>>,
     <<66957, 66962, 1, 39>>, <<66965, 66965, 1, 39>>,
     <<68736, 68786, 1, 64>>, <<71840, 71871, 1, 32>>,
     <<93760, 93791, 1, 32>>, <<125184, 125217, 1, 34>>}

\* the cased code points that are not case-ignorable, as ranges <<first, last>>
CasedRanges ==
    {<<65, 90>>, <<97, 122>>, <<170, 170>>, <<181, 181>>, <<186, 186>>,
     <<192, 214>>, <<216, 246>>, <<248, 442>>, <<444, 447>>, <<452, 659>>,
     <<661, 687>>, <<880, 883>>, <<886, 887>>, <<891, 893>>, <<895, 895>>,
     <<902, 902>>, <<904, 906>>, <<908, 908>>, <<910, 929>>, <<931, 1013>>,
     <<1015, 1153>>, <<1162, 1327>>, <<1329, 1366>>, <<1376, 1416>>,
     <<4256, 4293>>, <<4295, 4295>>, <<4301, 4301>>, <<4304, 4346>>,
     <<4349, 4351>>, <<5024, 5109>>, <<5112, 5117>>, <<7296, 7304>>,
     <<7312, 7354>>, <<7357, 7359>>, <<7424, 7467>>, <<7531, 7543>>,
     <<7545, 7578>>, <<7680, 7957>>, <<7960, 7965>>, <<7968, 8005>>,
     <<8008, 8013>>, <<8016, 8023>>, <<8025, 8025>>, <<8027, 8027>>,
     <<8029, 8029>>, <<8031, 8061>>, <<8064, 8116>>, <<8118, 8124>>,
     <<8126, 8126>>, <<8130, 8132>>, <<8134, 8140>>, <<8144, 8147>>,
     <<8150, 8155>>, <<8160, 8172>>, <<8178, 8180>>, <<8182, 8188>>,
     <<8450, 8450>>, <<8455, 8455>>, <<8458, 8467>>, <<8469, 8469>>,
     <<8473, 8477>>, <<8484, 8484>>, <<8486, 8486>>, <<8488, 8488>>,
     <<8490, 8493>>, <<8495, 8500>>, <<8505, 8505>>, <<8508, 8511>>,
     <<8517, 8521>>, <<8526, 8526>>, <<8544, 8575>>, <<8579, 8580>>,
     <<9398, 9449>>, <<11264, 11387>>, <<11390, 11492>>, <<11499, 11502>>,
     <<11506, 11507>>, <<11520, 11557>>, <<11559, 11559>>, <<11565, 11565>>,
     <<42560, 42605>>, <<42624, 42651>>, <<42786, 42863>>, <<42865, 42887>>,
     <<42891, 42894>>, <<42896, 42954>>, <<42960, 42961>>, <<42963, 42963>>,
     <<42965, 42969>>, <<42997, 42998>>, <<43002, 43002>>, <<43824, 43866>>,
     <<43872, 43880>>, <<43888, 43967>>, <<64256, 64262>>, <<64275, 64279>>,
     <<65313, 65338>>, <<65345, 65370>>, <<66560, 66639>>, <<66736, 66771>>,
     <<66776, 66811>>, <<66928, 66938>>, <<66940, 66954>>, <<66956, 66962>>,
     <<66964, 66965>>, <<66967, 66977>>, <<66979, 66993>>, <<66995, 67001>>,
     <<67003, 67004>>, <<68736, 68786>>, <<68800, 68850>>, <<71840, 71903>>,
     <<93760, 93823>>, <<119808, 119892>>, <<119894, 119964>>,
     <<119966, 119967>>, <<119970, 119970>>, <<119973, 119974>>,
     <<119977, 119980>>, <<119982, 119993>>, <<119995, 119995>>,
     <<119997, 120003>>, <<120005, 120069>>, <<120071, 120074>>,
     <<120077, 120084>>, <<120086, 120092>>, <<120094, 120121>>,
     <<120123, 120126>>, <<120128, 120132>>, <<120134, 120134>>,
     <<120138, 120144>>, <<120146, 120485>>, <<120488, 120512>>,
     <<120514, 120538>>, <<120540, 120570>>, <<120572, 120596>>,
     <<120598, 120628>>, <<120630, 120654>>, <<120656, 120686>>,
     <<120688, 120712>>, <<120714, 120744>>, <<120746, 120770>>,
     <<120772, 120779>>, <<122624, 122633>>, <<122635, 122654>>,
     <<125184, 125251>>, <<127280, 127305>>, <<127312, 127337>>,
     <<127344, 127369>>}

\* the case-ignorable code points, as ranges <<first, last>>
CaseIgnorableRanges ==
    {<<39, 39>>, <<46, 46>>, <<58, 58>>, <<94, 94>>, <<96, 96>>,
     <<168, 168>>, <<173, 173>>, <<175, 175>>, <<180, 180>>, <<183, 184>>,
     <<688, 879>>, <<884, 885>>, <<890, 890>>, <<900, 901>>, <<903, 903>>,
     <<1155, 1161>>, <<1369, 1369>>, <<1375, 1375>>, <<1425, 1469>>,
     <<1471, 1471>>, <<1473, 1474>>, <<1476, 1477>>, <<1479, 1479>>,
     <<1524, 1524>>, <<1536, 1541>>, <<1552, 1562>>, <<1564, 1564>>,
     <<1600, 1600>>, <<1611, 1631>>, <<1648, 1648>>, <<1750, 1757>>,
     <<1759, 1768>>, <<1770, 1773>>, <<1807, 1807>>, <<1809, 1809>>,
     <<1840, 1866>>, <<1958, 1968>>, <<2027, 2037>>, <<2042, 2042>>,
     <<2045, 2045>>, <<2070, 2093>>, <<2137, 2139>>, <<2184, 2184>>,
     <<2192, 2193>>, <<2200, 2207>>, <<2249, 2306>>, <<2362, 2362>>,
     <<2364, 2364>>, <<2369, 2376>>, <<2381, 2381>>, <<2385, 2391>>,
     <<2402, 2403>>, <<2417, 2417>>, <<2433, 2433>>, <<2492, 2492>>,
     <<2497, 2500>>, <<2509, 2509>>, <<2530, 2531>>, <<2558, 2558>>,
     <<2561, 2562>>, <<2620, 2620>>, <<2625, 2626>>, <<2631, 2632>>,
     <<2635, 2637>>, <<2641, 2641>>, <<2672, 2673>>, <<2677, 2677>>,
     <<2689, 2690>>, <<2748, 2748>>, <<2753, 2757>>, <<2759, 2760>>,
     <<2765, 2765>>, <<2786, 2787>>, <<2810, 2815>>, <<2817, 2817>>,
     <<2876, 2876>>, <<2879, 2879>>, <<2881, 2884>>, <<2893, 2893>>,
     <<2901, 2902>>, <<2914, 2915>>, <<2946, 2946>>, <<3008, 3008>>,
     <<3021, 3021>>, <<3072, 3072>>, <<3076, 3076>>, <<3132, 3132>>,
     <<3134, 3136>>, <<3142, 3144>>, <<3146, 3149>>, <<3157, 3158>>,
     <<3170, 3171>>, <<3201, 3201>>, <<3260, 3260>>, <<3263, 3263>>,
     <<3270, 3270>>, <<3276, 3277>>, <<3298, 3299>>, <<3328, 3329>>,
     <<3387, 3388>>, <<3393, 3396>>, <<3405, 3405>>, <<3426, 3427>>,
     <<3457, 3457>>, <<3530, 3530>>, <<3538, 3540>>, <<3542, 3542>>,
     <<3633, 3633>>, <<3636, 3642>>, <<3654, 3662>>, <<3761, 3761>>,
     <<3764, 3772>>, <<3782, 3782>>, <<3784, 3789>>, <<3864, 3865>>,
     <<3893, 3893>>, <<3895, 3895>>, <<3897, 3897>>, <<3953, 3966>>,
     <<3968, 3972>>, <<3974, 3975>>, <<3981, 3991>>, <<3993, 4028>>,
     <<4038, 4038>>, <<4141, 4144>>, <<4146, 4151>>, <<4153, 4154>>,
     <<4157, 4158>>, <<4184, 4185>>, <<4190, 4192>>, <<4209, 4212>>,
     <<4226, 4226>>, <<4229, 4230>>, <<4237, 4237>>, <<4253, 4253>>,
     <<4348, 4348>>, <<4957, 4959>>, <<5906, 5908>>, <<5938, 5939>>,
     <<5970, 5971>>, <<6002, 6003>>, <<6068, 6069>>, <<6071, 6077>>,
     <<6086, 6086>>, <<6089, 6099>>, <<6103, 6103>>, <<6109, 6109>>,
     <<6155, 6159>>, <<6211, 6211>>, <<6277, 6278>>, <<6313, 6313>>,
     <<6432, 6434>>, <<6439, 6440>>, <<6450, 6450>>, <<6457, 6459>>,
     <<6679, 6680>>, <<6683, 6683>>, <<6742, 6742>>, <<6744, 6750>>,
     <<6752, 6752>>, <<6754, 6754>>, <<6757, 6764>>, <<6771, 6780>>,
     <<6783, 6783>>, <<6823, 6823>>, <<6832, 6862>>, <<6912, 6915>>,
     <<6964, 6964>>, <<6966, 6970>>, <<6972, 6972>>, <<6978, 6978>>,
     <<7019, 7027>>, <<7040, 7041>>, <<7074, 7077>>, <<7080, 7081>>,
     <<7083, 7085>>, <<7142, 7142>>, <<7144, 7145>>, <<7149, 7149>>,
     <<7151, 7153>>, <<7212, 7219>>, <<7222, 7223>>, <<7288, 7293>>,
     <<7376, 7378>>, <<7380, 7392>>, <<7394, 7400>>, <<7405, 7405>>,
     <<7412, 7412>>, <<7416, 7417>>, <<7468, 7530>>, <<7544, 7544>>,
     <<7579, 7679>>, <<8125, 8125>>, <<8127, 8129>>, <<8141, 8143>>,
     <<8157, 8159>>, <<8173, 8175>>, <<8189, 8190>>, <<8203, 8207>>,
     <<8216, 8217>>, <<8228, 8228>>, <<8231, 8231>>, <<8234, 8238>>,
     <<8288, 8292>>, <<8294, 8303>>, <<8305, 8305>>, <<8319, 8319>>,
     <<8336, 8348>>, <<8400, 8432>>, <<11388, 11389>>, <<11503, 11505>>,
     <<11631, 11631>>, <<11647, 11647>>, <<11744, 11775>>, <<11823, 11823>>,
     <<12293, 12293>>, <<12330, 12333>>, <<12337, 12341>>, <<12347, 12347>>,
     <<12441, 12446>>, <<12540, 12542>>, <<40981, 40981>>, <<42232, 42237>>,
     <<42508, 42508>>, <<42607, 42610>>, <<42612, 42621>>, <<42623, 42623>>,
     <<42652, 42655>>, <<42736, 42737>>, <<42752, 42785>>, <<42864, 42864>>,
     <<42888, 42890>>, <<42994, 42996>>, <<43000, 43001>>, <<43010, 43010>>,
     <<43014, 43014>>, <<43019, 43019>>, <<43045, 43046>>, <<43052, 43052>>,
     <<43204, 43205>>, <<43232, 43249>>, <<43263, 43263>>, <<43302, 43309>>,
     <<43335, 43345>>, <<43392, 43394>>, <<43443, 43443>>, <<43446, 43449>>,
     <<43452, 43453>>, <<43471, 43471>>, <<43493, 43494>>, <<43561, 43566>>,
     <<43569, 43570>>, <<43573, 43574>>, <<43587, 43587>>, <<43596, 43596>>,
     <<43632, 43632>>, <<43644, 43644>>, <<43696, 43696>>, <<43698, 43700>>,
     <<43703, 43704>>, <<43710, 43711>>, <<43713, 43713>>, <<43741, 43741>>,
     <<43756, 43757>>, <<43763, 43764>>, <<43766, 43766>>, <<43867, 43871>>,
     <<43881, 43883>>, <<44005, 44005>>, <<44008, 44008>>, <<44013, 44013>>,
     <<64286, 64286>>, <<64434, 64450>>, <<65024, 65039>>, <<65043, 65043>>,
     <<65056, 65071>>, <<65106, 65106>>, <<65109, 65109>>, <<65279, 65279>>,
     <<65287, 65287>>, <<65294, 65294>>, <<65306, 65306>>, <<65342, 65342>>,
     <<65344, 65344>>, <<65392, 65392>>, <<65438, 65439>>, <<65507, 65507>>,
     <<65529, 65531>>, <<66045, 66045>>, <<66272, 66272>>, <<66422, 66426>>,
     <<67456, 67461>>, <<67463, 67504>>, <<67506, 67514>>, <<68097, 68099>>,
     <<68101, 68102>>, <<68108, 68111>>, <<68152, 68154>>, <<68159, 68159>>,
     <<68325, 68326>>, <<68900, 68903>>, <<69291, 69292>>, <<69446, 69456>>,
     <<69506, 69509>>, <<69633, 69633>>, <<69688, 69702>>, <<69744, 69744>>,
     <<69747, 69748>>, <<69759, 69761>>, <<69811, 69814>>, <<69817, 69818>>,
     <<69821, 69821>>, <<69826, 69826>>, <<69837, 69837>>, <<69888, 69890>>,
     <<69927, 69931>>, <<69933, 69940>>, <<70003, 70003>>, <<70016, 70017>>,
     <<70070, 70078>>, <<70089, 70092>>, <<70095, 70095>>, <<70191, 70193>>,
     <<70196, 70196>>, <<70198, 70199>>, <<70206, 70206>>, <<70367, 70367>>,
     <<70371, 70378>>, <<70400, 70401>>, <<70459, 70460>>, <<70464, 70464>>,
     <<70502, 70508>>, <<70512, 70516>>, <<70712, 70719>>, <<70722, 70724>>,
     <<70726, 70726>>, <<70750, 70750>>, <<70835, 70840>>, <<70842, 70842>>,
     <<70847, 70848>>, <<70850, 70851>>, <<71090, 71093>>, <<71100, 71101>>,
     <<71103, 71104>>, <<71132, 71133>>, <<71219, 71226>>, <<71229, 71229>>,
     <<71231, 71232>>, <<71339, 71339>>, <<71341, 71341>>, <<71344, 71349>>,
     <<71351, 71351>>, <<71453, 71455>>, <<71458, 71461>>, <<71463, 71467>>,
     <<71727, 71735>>, <<71737, 71738>>, <<71995, 71996>>, <<71998, 71998>>,
     <<72003, 72003>>, <<72148, 72151>>, <<72154, 72155>>, <<72160, 72160>>,
     <<72193, 72202>>, <<72243, 72248>>, <<72251, 72254>>, <<72263, 72263>>,
     <<72273, 72278>>, <<72281, 72283>>, <<72330, 72342>>, <<72344, 72345>>,
     <<72752, 72758>>, <<72760, 72765>>, <<72767, 72767>>, <<72850, 72871>>,
     <<72874, 72880>>, <<72882, 72883>>, <<72885, 72886>>, <<73009, 73014>>,
     <<73018, 73018>>, <<73020, 73021>>, <<73023, 73029>>, <<73031, 73031>>,
     <<73104, 73105>>, <<73109, 73109>>, <<73111, 73111>>, <<73459, 73460>>,
     <<78896, 78904>>, <<92912, 92916>>, <<92976, 92982>>, <<92992, 92995>>,
     <<94031, 94031>>, <<94095, 94111>>, <<94176, 94177>>, <<94179, 94180>>,
     <<110576, 110579>>, <<110581, 110587>>, <<110589, 110590>>,
     <<113821, 113822>>, <<113824, 113827>>, <<118528, 118573>>,
     <<118576, 118598>>, <<119143, 119145>>, <<119155, 119170>>,
     <<119173, 119179>>, <<119210, 119213>>, <<119362, 119364>>,
     <<121344, 121398>>, <<121403, 121452>>, <<121461, 121461>>,
     <<121476, 121476>>, <<121499, 121503>>, <<121505, 121519>>,
     <<122880, 122886>>, <<122888, 122904>>, <<122907, 122913>>,
     <<122915, 122916>>, <<122918, 122922>>, <<123184, 123197>>,
     <<123566, 123566>>, <<123628, 123631>>, <<125136, 125142>>,
     <<125252, 125259>>, <<127995, 127999>>, <<917505, 917505>>,
     <<917536, 917631>>, <<917760, 917999>>}


InRanges(c, ranges) == \E r \in ranges : c >= r[1] /\ c <= r[2]

\* the lower-case mapping of one code point that is mapped to one code point
LowerChar(c) ==
    IF c < 128 THEN (IF c >= 65 /\ c <= 90 THEN c + 32 ELSE c)
    ELSE LET R == {r \in LowerRuns : c >= r[1] /\ c <= r[2] /\ (c - r[1]) % r[3] = 0}
         IN IF R = {} THEN c ELSE c + (CHOOSE r \in R : TRUE)[4]

\* the capital sigma at position i is at the end of a word: going back over
\* the case-ignorable characters there is a cased one, going forward there
\* is none
FinalSigma(str, i) ==
    LET before == {j \in 1..(i - 1) : ~InRanges(str[j], CaseIgnorableRanges)}
        after == {j \in (i + 1)..Len(str) : ~InRanges(str[j], CaseIgnorableRanges)}
        last == CHOOSE j \in before : \A k \in before : k <= j
        first == CHOOSE j \in after : \A k \in after : j <= k
    IN /\ before # {}
       /\ InRanges(str[last], CasedRanges)
       /\ (after = {} \/ ~InRanges(str[first], CasedRanges))

RECURSIVE LowerFrom(_, _)
LowerFrom(str, i) ==
    IF i > Len(str) THEN <<>>
    ELSE (IF str[i] = 931 THEN (IF FinalSigma(str, i) THEN <<962>> ELSE <<963>>)
          ELSE IF str[i] = 304 THEN <<105, 775>>
          ELSE <<LowerChar(str[i])>>)
         \o LowerFrom(str, i + 1)

\* str.lower(): every cased character is replaced by its lower-case mapping;
\* 'İ' (U+0130) becomes two code points, 'Σ' (U+03A3) becomes 'ς' at the end
\* of a word and 'σ' elsewhere
Lower(str) ==
    IF \A i \in 1..Len(str) : str[i] < 128
    THEN [i \in 1..Len(str) |-> LowerChar(str[i])]
    ELSE LowerFrom(str, 1)

\* key=lambda x: (x['type'] == 'file', x['name'].lower()), compared as tuples
SortKeyLess(x, y) ==
    \/ x.type # "file" /\ y.type = "file"
    \/ /\ (x.type = "file") = (y.type = "file")
       /\ KeyLess(Lower(x.name), Lower(y.name))

\* sorted(items, key=...): stable, so an item goes after the items with a
\* smaller key and after the earlier items with an equal key
Sorted(items) ==
    LET n == Len(items)
        key == SubSeq([i \in 1..n |-> [type |-> items[i].type,
                                        name |-> Lower(items[i].name)]], 1, n)
        KeyLE(i, j) == \/ key[i].type # "file" /\ key[j].type = "file"
                       \/ /\ key[i].type = key[j].type
                          /\ ~KeyLess(key[j].name, key[i].name)
        rank == SubSeq([i \in 1..n |->
                          Cardinality({j \in 1..n :
                              IF j < i THEN KeyLE(j, i) ELSE ~KeyLE(i, j)}) + 1],
                       1, n)
        place == SubSeq([p \in 1..n |-> CHOOSE i \in 1..n : rank[i] = p], 1, n)
    IN [p \in 1..n |-> items[place[p]]]

HomeName == <<72, 111, 109, 101>>

\* a variant that makes a file entry of every listed object
FileObjects_keeping_marker(contents, prefix) == contents

\* the objects of the listing that become file entries: the object whose
\* key is the browsed prefix itself (the folder's marker) is skipped
FileObjects(contents, prefix) == SelectSeq(contents, LAMBDA o : o.Key # prefix)

\* a variant that puts a '/' in front of every part
RECURSIVE Breadcrumbs_always_slash(_, _, _)
Breadcrumbs_always_slash(parts, i, current_path) ==
    IF i > Len(parts) THEN <<>>
    ELSE LET next_path == current_path \o <<Slash>> \o parts[i]
         IN <<[name |-> parts[i], path |-> next_path]>>
                \o Breadcrumbs_always_slash(parts, i + 1, next_path)

\* the breadcrumb loop over virtual_path.split('/')
RECURSIVE Breadcrumbs(_, _, _)
Breadcrumbs(parts, i, current_path) ==
    IF i > Len(parts) THEN <<>>
    ELSE LET next_path == IF current_path # <<>>
                          THEN current_path \o <<Slash>> \o parts[i] ELSE parts[i]
         IN <<[name |-> parts[i], path |-> next_path]>>
                \o Breadcrumbs(parts, i + 1, next_path)

browse_filesystem(st, path, bucket_order, fault) ==
    LET virtual_path == Strip(path)
        pp == ParsePath(virtual_path)
        bucket_name == pp.bucket_name
        prefix == pp.prefix
        Fail500(c) == Outcome(c, BaseResp("browse", 500, "Failed to browse filesystem"))
        \* root
        brec == CallRec("list_buckets", <<>>, <<>>, 0)
        root_items == [i \in 1..Len(bucket_order) |->
                          [name |-> bucket_order[i], type |-> "directory",
                           path |-> bucket_order[i]]]
        \* bucket or folder
        lrec == CallRec("list_objects_v2", bucket_name, prefix, 0)
        response == ListPageDelim(st[bucket_name], prefix)
        dirs == [i \in 1..Len(response.CommonPrefixes) |->
                    LET folder_prefix == response.CommonPrefixes[i] IN
                    [name |-> SubSeq(folder_prefix, Len(prefix) + 1, Len(folder_prefix) - 1),
                     type |-> "directory",
                     path |-> bucket_name \o <<Slash>> \o RStrip(folder_prefix)]]
        objs == FileObjects(response.Contents, prefix)
        files == [i \in 1..Len(objs) |->
                    [name |-> SubSeq(objs[i].Key, Len(prefix) + 1, Len(objs[i].Key)),
                     type |-> "file",
                     path |-> bucket_name \o <<Slash>> \o objs[i].Key]]
        breadcrumbs == <<[name |-> HomeName, path |-> <<>>]>>
                          \o Breadcrumbs(Split(virtual_path), 1, <<>>)
    IN IF virtual_path = <<>>
       THEN IF fault = 1
            THEN Fail500(Failed(Ctx0(st), brec))
            ELSE Outcome([Ctx0(st) EXCEPT !.log = <<brec>>],
                         [BaseResp("browse", 200, "") EXCEPT
                             !.path = <<Slash>>,
                             !.breadcrumbs = <<[name |-> HomeName, path |-> <<>>]>>,
                             !.items = root_items])
       ELSE IF Raises(Ctx0(st), fault, bucket_name)
            THEN Fail500(Failed(Ctx0(st), lrec))
            ELSE Outcome([Ctx0(st) EXCEPT !.log = <<lrec>>],
                         [BaseResp("browse", 200, "") EXCEPT
                             !.path = <<Slash>> \o virtual_path,
                             !.breadcrumbs = breadcrumbs,
                             !.items = Sorted(dirs \o files)])

----------------------------------------------------------------------------
(* Configuration (config.py) and the authorization gate (app/auth)         *)

AllPermissions == {"view", "write", "delete"}

\* Config.ROLE_PERMISSIONS
ROLE_PERMISSIONS ==
    [r \in {"S3-Viewer", "S3-Editor", "S3-Admin"} |->
        CASE r = "S3-Viewer" -> {"view"}
          [] r = "S3-Editor" -> {"view", "write"}
          [] r = "S3-Admin" -> {"view", "write", "delete"}]

\* a deployment whose role map also holds a role that grants nothing
ROLE_PERMISSIONS_WITH_EMPTY ==
    [r \in DOMAIN ROLE_PERMISSIONS \cup {"S3-None"} |->
        IF r = "S3-None" THEN {} ELSE ROLE_PERMISSIONS[r]]

VARIABLES
    config,    \* app.config: LOCAL_DEV_MODE, DEFAULT_ROLE, ROLE_PERMISSIONS,
               \* OIDC_PROVIDER, PIM_ENABLED, and SESSION_TYPE, the kind of
               \* session the application is deployed with
    session,   \* the session as the next request of the browser finds it:
               \* user, oauth_state, permanent
    store,     \* the object store
    req,       \* the latest request: its operation, fields and fault index
    resp,      \* answer to the latest request
    log,       \* object-store calls issued by the latest request
    nstate,    \* number of CSRF states generated so far
    nreq,      \* number of requests handled so far
    inflight   \* the requests being handled call by call: one frame of
               \* local variables for each, in the order they were received

vars == <<config, session, store, req, resp, log, nstate, nreq, inflight>>

NoUser == <<>>
NoState == <<>>

EmptySession == [user |-> NoUser, oauth_state |-> NoState, permanent |-> FALSE]

HasUser(sess) == sess.user # NoUser

create_mock_user ==
    LET default_role == config.DEFAULT_ROLE
        role_permissions == config.ROLE_PERMISSIONS
    IN [name |-> "Local Developer",
        roles |-> {default_role},
        permissions |-> IF default_role \in DOMAIN role_permissions
                        THEN role_permissions[default_role]
                        ELSE AllPermissions,
        provider |-> "none"]

\* the auto-login both decorators perform in local development mode
AutoLogin(sess) ==
    IF config.LOCAL_DEV_MODE /\ ~HasUser(sess)
    THEN [sess EXCEPT !.user = <<create_mock_user>>, !.permanent = TRUE]
    ELSE sess

\* login_required: 401 or 0 (call the wrapped function)
login_required(sess) == IF ~HasUser(AutoLogin(sess)) THEN 401 ELSE 0

permission_required_unchecked(sess, permission) ==
    IF ~HasUser(AutoLogin(sess)) THEN 401 ELSE 0

\* permission_required(permission): 401, 403 or 0 (call the wrapped function)
permission_required(sess, permission) ==
    IF ~HasUser(AutoLogin(sess)) THEN 401
    ELSE IF permission \notin AutoLogin(sess).user[1].permissions THEN 403
    ELSE 0

Gate_permission_only(sess, permission) ==
    IF ~HasUser(AutoLogin(sess)) \/ permission \notin AutoLogin(sess).user[1].permissions
    THEN 403 ELSE 0

\* @login_required on top of @permission_required(permission)
Gate(sess, permission) ==
    IF login_required(sess) # 0 THEN login_required(sess)
    ELSE permission_required(AutoLogin(sess), permission)

GateError(status) ==
    IF status = 401 THEN "Authentication required" ELSE "Insufficient permissions"

map_roles_to_permissions_no_fallback(roles) ==
    UNION {config.ROLE_PERMISSIONS[role] :
              role \in roles \cap DOMAIN config.ROLE_PERMISSIONS}

map_roles_to_permissions_merge(roles) ==
    map_roles_to_permissions_no_fallback(roles)
        \cup (IF config.DEFAULT_ROLE \in DOMAIN config.ROLE_PERMISSIONS
              THEN config.ROLE_PERMISSIONS[config.DEFAULT_ROLE] ELSE {})

map_roles_to_permissions(roles) ==
    LET role_permissions == config.ROLE_PERMISSIONS
        permissions == UNION {role_permissions[role] :
                                 role \in roles \cap DOMAIN role_permissions}
        default_role == config.DEFAULT_ROLE
    IN IF permissions = {}
       THEN IF default_role \in DOMAIN role_permissions
            THEN role_permissions[default_role] ELSE {}
       ELSE permissions

----------------------------------------------------------------------------
(* The handlers that wait on the object store or on the identity provider  *)
(* more than once are given wait by wait.  The step in which the request   *)
(* arrives runs the gate and the handler down to its first call: a request *)
(* the gate or the validation refuses is answered in that step, every      *)
(* other request leaves a frame in `inflight` that holds the handler's     *)
(* local variables.  Each later step is one call of one frame and what the *)
(* handler does until its next call; the step of the last call answers the *)
(* request and removes the frame.  Other requests, of the same browser     *)
(* too, are served between the steps.  A frame keeps in store0 the store   *)
(* as it was when the request arrived; no handler reads it, the properties *)
(* do.                                                                     *)
(*                                                                         *)
(* The handlers reach the session through flask.session.  SESSION_TYPE     *)
(* "cookie" is the session of a Flask application as create_app builds it: *)
(* the session travels in a signed cookie, every request works on the copy *)
(* its cookie carried and the copy goes back to the browser with the       *)
(* answer, so that the answer that comes last decides what the browser     *)
(* holds.  Every copy that waits is sent back: it holds a user, and then   *)
(* it is permanent and refreshed with each answer, or the callback has     *)
(* modified it.  SESSION_TYPE "server" is a session store keyed by the     *)
(* session id: the requests of a browser work on one stored record and a   *)
(* write is seen by the others at once.                                    *)

Cookie == config.SESSION_TYPE = "cookie"

\* the session a waiting request keeps in its frame: its copy of the cookie;
\* with a session store it keeps none
Carried(sess) == IF Cookie THEN sess ELSE EmptySession

\* the session object the handler of frame f reads and writes
Own(f) == IF Cookie THEN f.sess ELSE session

\* `session` after the step in which a request arrived whose handler left its
\* session as sess: a request that waits on a cookie session has not
\* answered, and the browser still holds what it held
ArrivalSession(sess) ==
    IF Cookie /\ Len(inflight') > Len(inflight) THEN session ELSE sess

\* the request is answered in the step in which it arrives
AnsweredAtOnce(request, out_resp, out_log) ==
    /\ nreq' = nreq + 1
    /\ req' = request
    /\ resp' = out_resp
    /\ log' = out_log
    /\ UNCHANGED inflight

\* the frame at position w leaves: its request is answered
Leaves(w, out_resp, out_log) ==
    /\ nreq' = nreq + 1
    /\ req' = inflight[w].req
    /\ resp' = out_resp
    /\ log' = out_log
    /\ inflight' = SubSeq(inflight, 1, w - 1) \o SubSeq(inflight, w + 1, Len(inflight))

\* the frame at position w leaves and its session goes back with the answer
Answered(w, out_resp, out_log) ==
    /\ Leaves(w, out_resp, out_log)
    /\ session' = Own(inflight[w])

\* the frame at position w goes on to its next call with the locals of f1
Continue(w, f1) ==
    /\ inflight' = [inflight EXCEPT ![w] = f1]
    /\ UNCHANGED <<req, resp, log, nreq, session>>

----------------------------------------------------------------------------
(* Requests                                                                *)

MaxRequests == 3

MaxLogins == 2

AuthResp(op, status, error) == BaseResp(op, status, error)

\* GET /auth/login.  provider_fault: "none", "provider" (get_oidc_provider_instance
\* raises) or "auth_url" (get_authorization_url raises)
Login(provider_fault) ==
    /\ nreq' = nreq + 1
    /\ req' = [op |-> "login", provider_fault |-> provider_fault]
    /\ UNCHANGED <<config, inflight, store>>
    /\ log' = <<>>
    /\ IF config.LOCAL_DEV_MODE
       THEN /\ session' = [session EXCEPT !.user = <<create_mock_user>>,
                                          !.permanent = TRUE]
            /\ resp' = AuthResp("login", 302, "")
            /\ UNCHANGED nstate
       ELSE IF provider_fault = "provider"
       THEN /\ resp' = AuthResp("login", 500, "Failed to initiate login")
            /\ UNCHANGED <<session, nstate>>
       ELSE /\ nstate < MaxLogins
            /\ nstate' = nstate + 1
            /\ session' = [session EXCEPT !.oauth_state = <<nstate + 1>>]
            /\ resp' = IF provider_fault = "auth_url"
                       THEN AuthResp("login", 500, "Failed to initiate login")
                       ELSE AuthResp("login", 302, "")

\* the CSRF check of callback: `not state or state != session.get('oauth_state')`
StateAbsentOnly(state, sess) == state = NoState

StateRejected(state, sess) == state = NoState \/ state # sess.oauth_state

\* the answer to a callback without a code: `error_description or error`,
\* where error is 'No authorization code received' and error_description is
\* '' when the query string does not have them
OAuthError(error, error_description) ==
    LET e == IF error = <<>> THEN "No authorization code received" ELSE error[1]
        d == IF error_description = <<>> THEN "" ELSE error_description[1]
    IN IF d # "" THEN d ELSE e

\* the user record callback stores for the roles get_user_roles returned
CallbackUser(roles) ==
    [name |-> "Provider User", roles |-> roles,
     permissions |-> map_roles_to_permissions(roles),
     provider |-> config.OIDC_PROVIDER]

\* GET /auth/callback, from its arrival to the call of
\* provider.exchange_code_for_token.  state: the state query parameter
\* (NoState when absent or empty); has_code: a code parameter is present;
\* error, error_description: the query parameters of these names, <<>> when
\* absent and <<text>> when present; provider_fault: "none", "provider"
\* (get_oidc_provider_instance raises), "token" (exchange_code_for_token
\* raises) or "user_info" (get_user_info raises); roles: what get_user_roles
\* returns.  session0 keeps the session as the request found it; no handler
\* reads it, the properties do.
CallbackBegin(state, has_code, error, error_description, provider_fault, roles) ==
    LET request == [op |-> "callback", state |-> state, has_code |-> has_code,
                    error |-> error, error_description |-> error_description,
                    provider_fault |-> provider_fault, roles |-> roles]
        popped == [session EXCEPT !.oauth_state = NoState]
        Refuse(code, text) ==
            AnsweredAtOnce(request, AuthResp("callback", code, text), <<>>)
    IN
    /\ UNCHANGED <<config, store, nstate>>
    /\ IF config.LOCAL_DEV_MODE
       THEN /\ AnsweredAtOnce(request, AuthResp("callback", 302, ""), <<>>)
            /\ UNCHANGED session
       ELSE IF StateRejected(state, session)
       THEN /\ Refuse(400, "Invalid state parameter")
            /\ UNCHANGED session
       ELSE IF ~has_code
       THEN /\ Refuse(400, OAuthError(error, error_description))
            /\ session' = popped
       ELSE IF provider_fault = "provider"
       THEN /\ Refuse(500, "Failed to process authentication")
            /\ session' = popped
       ELSE /\ inflight' = Append(inflight,
                    [req |-> request, pc |-> "token", log |-> <<>>, store0 |-> store,
                     session0 |-> session, sess |-> Carried(popped)])
            /\ UNCHANGED <<req, resp, log, nreq>>
            /\ session' = ArrivalSession(popped)

\* provider.exchange_code_for_token returns or raises; when it returns the
\* handler calls provider.get_user_info
CallbackToken(w) ==
    LET f == inflight[w] IN
    /\ f.req.op = "callback"
    /\ f.pc = "token"
    /\ UNCHANGED <<config, store, nstate>>
    /\ IF f.req.provider_fault = "token"
       THEN Answered(w, AuthResp("callback", 500, "Failed to process authentication"),
                     <<>>)
       ELSE Continue(w, [f EXCEPT !.pc = "user_info"])

\* provider.get_user_info returns or raises; when it returns the handler
\* takes the roles from provider.get_user_roles, stores the user in its
\* session and redirects
CallbackUserInfo(w) ==
    LET f == inflight[w] IN
    /\ f.req.op = "callback"
    /\ f.pc = "user_info"
    /\ UNCHANGED <<config, store, nstate>>
    /\ IF f.req.provider_fault = "user_info"
       THEN Answered(w, AuthResp("callback", 500, "Failed to process authentication"),
                     <<>>)
       ELSE /\ Leaves(w, AuthResp("callback", 302, ""), <<>>)
            /\ session' = [Own(f) EXCEPT !.user = <<CallbackUser(f.req.roles)>>,
                                         !.permanent = TRUE]

\* GET /auth/logout
Logout ==
    /\ nreq' = nreq + 1
    /\ req' = [op |-> "logout"]
    /\ UNCHANGED <<config, inflight, store, nstate>>
    /\ log' = <<>>
    /\ session' = EmptySession
    /\ resp' = AuthResp("logout", 302, "")

\* the operations whose handler issues at most one object-store call
SingleCallOps ==
    {"list_buckets", "list_objects", "get_object", "upload_object",
     "delete_object", "browse", "create_folder"}

\* the body of the route of request r, run on the store st
RouteBody(r, st) ==
    CASE r.op = "list_buckets" -> list_buckets(st, r.bucket_order, r.fault)
      [] r.op = "list_objects" ->
            list_objects(st, r.bucket_name, r.prefix, r.max_keys,
                         r.continuation_token, r.fault)
      [] r.op = "get_object" ->
            get_object(st, r.bucket_name, r.object_key, r.fault, r.exc)
      [] r.op = "upload_object" ->
            upload_object(st, r.bucket_name, r.object_key, r.file, r.fault)
      [] r.op = "delete_object" ->
            delete_object_route(st, r.bucket_name, r.object_key, r.fault)
      [] r.op = "browse" -> browse_filesystem(st, r.path, r.bucket_order, r.fault)
      [] r.op = "create_folder" -> create_folder(st, r.path, r.folderName, r.fault)

\* the body of the route answers before it reaches its object-store call
ReturnsBeforeCall(r) ==
    CASE r.op = "list_objects" -> r.max_keys = NotAnInteger
      [] r.op = "upload_object" -> r.file = <<>>
      [] r.op = "create_folder" ->
            \/ ~IsString(r.path) \/ ~IsString(r.folderName)
            \/ Strip(r.folderName) = <<>> \/ Strip(r.path) = <<>>
      [] OTHER -> FALSE

\* a route decorated with @login_required and @permission_required(permission):
\* the gate and the body of the route down to its object-store call; out is
\* what the body gives, which is its answer when it returns before the call
Protected(request, permission, out) ==
    LET status == Gate(session, permission) IN
    /\ UNCHANGED <<config, nstate, store>>
    /\ IF status # 0
       THEN AnsweredAtOnce(request, BaseResp(request.op, status, GateError(status)),
                           <<>>)
       ELSE IF ReturnsBeforeCall(request)
       THEN AnsweredAtOnce(request, out.resp, out.log)
       ELSE /\ inflight' = Append(inflight,
                    [req |-> request, pc |-> "call", log |-> <<>>, store0 |-> store,
                     sess |-> Carried(AutoLogin(session))])
            /\ UNCHANGED <<req, resp, log, nreq>>
    /\ session' = ArrivalSession(AutoLogin(session))

\* the object-store call of a route that issues one, and its answer
ProtectedCall(w) ==
    LET f == inflight[w] IN
    /\ f.req.op \in SingleCallOps
    /\ UNCHANGED <<config, nstate>>
    /\ \E out \in {RouteBody(f.req, store)} :
          /\ store' = out.store
          /\ Answered(w, out.resp, out.log)

ListBuckets(bucket_order, fault) ==
    Protected([op |-> "list_buckets", bucket_order |-> bucket_order, fault |-> fault],
              "view", list_buckets(store, bucket_order, fault))

ListObjects(bucket_name, prefix, max_keys, continuation_token, fault) ==
    Protected([op |-> "list_objects", bucket_name |-> bucket_name, prefix |-> prefix,
               max_keys |-> max_keys, continuation_token |-> continuation_token,
               fault |-> fault],
              "view",
              list_objects(store, bucket_name, prefix, max_keys, continuation_token,
                           fault))

GetObject(bucket_name, object_key, fault, exc) ==
    Protected([op |-> "get_object", bucket_name |-> bucket_name,
               object_key |-> object_key, fault |-> fault, exc |-> exc],
              "view", get_object(store, bucket_name, object_key, fault, exc))

UploadObject(bucket_name, object_key, file, fault) ==
    Protected([op |-> "upload_object", bucket_name |-> bucket_name,
               object_key |-> object_key, file |-> file, fault |-> fault],
              "write", upload_object(store, bucket_name, object_key, file, fault))

DeleteObject(bucket_name, object_key, fault) ==
    Protected([op |-> "delete_object", bucket_name |-> bucket_name,
               object_key |-> object_key, fault |-> fault],
              "delete", delete_object_route(store, bucket_name, object_key, fault))

Browse(path, bucket_order, fault) ==
    Protected([op |-> "browse", path |-> path, bucket_order |-> bucket_order,
               fault |-> fault],
              "view", browse_filesystem(store, path, bucket_order, fault))

CreateFolder(path, folderName, fault) ==
    Protected([op |-> "create_folder", path |-> path, folderName |-> folderName,
               fault |-> fault],
              "write", create_folder(store, path, folderName, fault))

----------------------------------------------------------------------------
(* The routes of the virtual file system that issue several calls          *)

\* position of the first file from position idx on that has a filename
NextNamed(uploaded_files, idx) ==
    LET named == {i \in idx..Len(uploaded_files) : uploaded_files[i].filename # <<>>}
    IN IF named = {} THEN Len(uploaded_files) + 1
       ELSE CHOOSE i \in named : \A j \in named : i <= j

\* the list upload_to_path works on: the parts named 'files[]' or, when there
\* is none, the part named 'file' (r.file: <<>> when the form has none)
SubmittedFiles(r) == IF r.files = <<>> THEN r.file ELSE r.files

\* POST /operations/upload: the gate and upload_to_path down to the first
\* put_object
UploadBegin(path, files, file, relative_paths, fault) ==
    LET request == [op |-> "upload", path |-> path, files |-> files, file |-> file,
                    relative_paths |-> relative_paths, fault |-> fault]
        status == Gate(session, "write")
        uploaded_files == SubmittedFiles(request)
        virtual_path == Strip(path)
        pp == ParsePath(virtual_path)
        idx == NextNamed(uploaded_files, 1)
        Refuse(code, error) == AnsweredAtOnce(request, BaseResp("upload", code, error), <<>>)
    IN
    /\ UNCHANGED <<config, nstate, store>>
    /\ IF status # 0 THEN Refuse(status, GateError(status))
       ELSE IF Len(uploaded_files) = 0 THEN Refuse(400, "No files provided")
       ELSE IF virtual_path = <<>> THEN Refuse(400, "Cannot upload to root")
       ELSE IF idx > Len(uploaded_files) THEN Refuse(400, "No valid files to upload")
       ELSE /\ inflight' = Append(inflight,
                    [req |-> request, pc |-> "put", log |-> <<>>, store0 |-> store,
                     sess |-> Carried(AutoLogin(session)),
                     bucket_name |-> pp.bucket_name, prefix |-> pp.prefix,
                     idx |-> idx, info |-> <<>>])
            /\ UNCHANGED <<req, resp, log, nreq>>
    /\ session' = ArrivalSession(AutoLogin(session))

\* a variant that takes the relative path at the file's position among the
\* files that have a filename
UploadPut_packed_paths(w) ==
    LET f == inflight[w]
        file == SubmittedFiles(f.req)[f.idx]
        relative_paths == f.req.relative_paths
        n == Len(f.info) + 1
        object_key == IF n <= Len(relative_paths) /\ relative_paths[n] # <<>>
                      THEN f.prefix \o relative_paths[n]
                      ELSE f.prefix \o file.filename
        ctx == [store |-> store, log |-> f.log, err |-> FALSE]
        c1 == put_object(ctx, f.req.fault, f.bucket_name, object_key, file.content)
        info == Append(f.info, [filename |-> file.filename,
                                path |-> f.bucket_name \o <<Slash>> \o object_key])
        idx == NextNamed(SubmittedFiles(f.req), f.idx + 1)
    IN
    /\ f.req.op = "upload"
    /\ UNCHANGED <<config, nstate>>
    /\ store' = c1.store
    /\ IF c1.err
       THEN Answered(w, BaseResp("upload", 500, "Failed to upload file(s)"), c1.log)
       ELSE IF idx > Len(SubmittedFiles(f.req))
       THEN Answered(w, [BaseResp("upload", 200, "") EXCEPT
                            !.count = <<Len(info)>>, !.files = info], c1.log)
       ELSE Continue(w, [f EXCEPT !.log = c1.log, !.idx = idx, !.info = info])

\* one iteration of the loop over enumerate(uploaded_files) that reaches
\* put_object, and the iterations after it that skip a file without a name
UploadPut(w) ==
    LET f == inflight[w]
        file == SubmittedFiles(f.req)[f.idx]
        relative_paths == f.req.relative_paths
        object_key == IF f.idx <= Len(relative_paths) /\ relative_paths[f.idx] # <<>>
                      THEN f.prefix \o relative_paths[f.idx]
                      ELSE f.prefix \o file.filename
        ctx == [store |-> store, log |-> f.log, err |-> FALSE]
        c1 == put_object(ctx, f.req.fault, f.bucket_name, object_key, file.content)
        info == Append(f.info, [filename |-> file.filename,
                                path |-> f.bucket_name \o <<Slash>> \o object_key])
        idx == NextNamed(SubmittedFiles(f.req), f.idx + 1)
    IN
    /\ f.req.op = "upload"
    /\ UNCHANGED <<config, nstate>>
    /\ store' = c1.store
    /\ IF c1.err
       THEN Answered(w, BaseResp("upload", 500, "Failed to upload file(s)"), c1.log)
       ELSE IF idx > Len(SubmittedFiles(f.req))
       THEN Answered(w, [BaseResp("upload", 200, "") EXCEPT
                            !.count = <<Len(info)>>, !.files = info], c1.log)
       ELSE Continue(w, [f EXCEPT !.log = c1.log, !.idx = idx, !.info = info])

\* POST /operations/rename: the gate and rename_item down to the copy call of
\* the file branch.  old_key is the tail of a path trimmed of its slashes and
\* never ends with '/': the folder branch is not taken; it is given as one
\* step.
RenameBegin(oldPath, newName, fault) ==
    LET request == [op |-> "rename", oldPath |-> oldPath, newName |-> newName,
                    fault |-> fault]
        status == Gate(session, "write")
        old_virtual_path == Strip(oldPath)
        new_name == Strip(newName)
        old_parts == Split(old_virtual_path)
        bucket_name == old_parts[1]
        old_key == Join(Tail(old_parts))
        parent_parts == SubSeq(old_parts, 1, Len(old_parts) - 1)
        new_virtual_path == Join(Append(parent_parts, new_name))
        new_key == Join(Append(Tail(parent_parts), new_name))
        is_folder == EndsWithSlash(old_key)
        out == rename_folder(store, fault, bucket_name, old_key, new_key,
                             new_virtual_path)
        Refuse(code, error) ==
            /\ AnsweredAtOnce(request, BaseResp("rename", code, error), <<>>)
            /\ UNCHANGED store
    IN
    /\ UNCHANGED <<config, nstate>>
    /\ IF status # 0 THEN Refuse(status, GateError(status))
       ELSE IF ~IsString(oldPath) \/ ~IsString(newName)
       THEN Refuse(500, "Failed to rename item")
       ELSE IF old_virtual_path = <<>> \/ new_name = <<>>
       THEN Refuse(400, "Both oldPath and newName are required")
       ELSE IF Len(old_parts) < 2 THEN Refuse(400, "Cannot rename buckets")
       ELSE IF is_folder
       THEN /\ AnsweredAtOnce(request, out.resp, out.log)
            /\ store' = out.store
       ELSE /\ inflight' = Append(inflight,
                    [req |-> request, pc |-> "copy", log |-> <<>>, store0 |-> store,
                     sess |-> Carried(AutoLogin(session)),
                     bucket_name |-> bucket_name,
                     old_key |-> old_key,
                     new_key |-> new_key,
                     new_virtual_path |-> new_virtual_path])
            /\ UNCHANGED <<store, req, resp, log, nreq>>
    /\ session' = ArrivalSession(AutoLogin(session))

\* a variant that goes on to the delete whether or not the copy succeeded
RenameCopy_delete_regardless(w) ==
    LET f == inflight[w]
        ctx == [store |-> store, log |-> f.log, err |-> FALSE]
        c1 == copy_object(ctx, f.req.fault, f.bucket_name, f.old_key, f.new_key)
    IN
    /\ f.req.op = "rename" /\ f.pc = "copy"
    /\ UNCHANGED <<config, nstate>>
    /\ store' = c1.store
    /\ Continue(w, [f EXCEPT !.pc = "delete", !.log = c1.log])

\* s3_client.copy_object(...) of the file branch
RenameCopy(w) ==
    LET f == inflight[w]
        ctx == [store |-> store, log |-> f.log, err |-> FALSE]
        c1 == copy_object(ctx, f.req.fault, f.bucket_name, f.old_key, f.new_key)
    IN
    /\ f.req.op = "rename" /\ f.pc = "copy"
    /\ UNCHANGED <<config, nstate>>
    /\ store' = c1.store
    /\ IF c1.err
       THEN Answered(w, BaseResp("rename", 500, "Failed to rename item"), c1.log)
       ELSE Continue(w, [f EXCEPT !.pc = "delete", !.log = c1.log])

\* s3_client.delete_object(...) of the file branch and the answer
RenameDelete(w) ==
    LET f == inflight[w]
        ctx == [store |-> store, log |-> f.log, err |-> FALSE]
        c2 == delete_object(ctx, f.req.fault, f.bucket_name, f.old_key)
    IN
    /\ f.req.op = "rename" /\ f.pc = "delete"
    /\ UNCHANGED <<config, nstate>>
    /\ store' = c2.store
    /\ Answered(w,
                IF c2.err
                THEN BaseResp("rename", 500, "Failed to rename item")
                ELSE [BaseResp("rename", 200, "") EXCEPT
                         !.path = f.new_virtual_path],
                c2.log)

\* POST /operations/delete-folder: the gate and delete_folder down to the
\* first list_objects_v2
DeleteFolderBegin(path, fault) ==
    LET request == [op |-> "delete_folder", path |-> path, fault |-> fault]
        status == Gate(session, "delete")
        virtual_path == Strip(path)
        path_parts == Split1(virtual_path)
        Refuse(code, error) ==
            AnsweredAtOnce(request, BaseResp("delete_folder", code, error), <<>>)
    IN
    /\ UNCHANGED <<config, nstate, store>>
    /\ IF status # 0 THEN Refuse(status, GateError(status))
       ELSE IF ~IsString(path) THEN Refuse(500, "Failed to delete folder")
       ELSE IF virtual_path = <<>> THEN Refuse(400, "Path is required")
       ELSE IF Len(path_parts) < 2 THEN Refuse(400, "Cannot delete buckets")
       ELSE /\ inflight' = Append(inflight,
                    [req |-> request, pc |-> "list", log |-> <<>>, store0 |-> store,
                     sess |-> Carried(AutoLogin(session)),
                     bucket_name |-> path_parts[1],
                     prefix |-> FolderPrefix(path_parts),
                     continuation_token |-> NoToken,
                     objects_to_delete |-> <<>>,
                     i |-> 1, deleted_count |-> 0])
            /\ UNCHANGED <<req, resp, log, nreq>>
    /\ session' = ArrivalSession(AutoLogin(session))

\* a variant that leaves the listing loop after its first page
DeleteFolderList_first_page_only(w) ==
    LET f == inflight[w]
        ctx == [store |-> store, log |-> f.log, err |-> FALSE]
        rec == CallRec("list_objects_v2", f.bucket_name, f.prefix, 0)
        l1 == Append(f.log, rec)
    IN
    /\ f.req.op = "delete_folder" /\ f.pc = "list"
    /\ UNCHANGED <<config, store, nstate>>
    /\ IF Raises(ctx, f.req.fault, f.bucket_name)
       THEN Answered(w, BaseResp("delete_folder", 500, "Failed to delete folder"),
                     Failed(ctx, rec).log)
       ELSE \E response \in {ListPage(store[f.bucket_name], f.prefix,
                                      f.continuation_token)} :
            \E keys \in {f.objects_to_delete \o KeysOf(response.Contents)} :
            IF Len(keys) = 0
            THEN Answered(w, BaseResp("delete_folder", 200, ""), l1)
            ELSE Continue(w, [f EXCEPT !.log = l1,
                                       !.objects_to_delete = keys,
                                       !.pc = "delete"])

\* one iteration of the `while True` listing loop of delete_folder
DeleteFolderList(w) ==
    LET f == inflight[w]
        ctx == [store |-> store, log |-> f.log, err |-> FALSE]
        rec == CallRec("list_objects_v2", f.bucket_name, f.prefix, 0)
        l1 == Append(f.log, rec)
    IN
    /\ f.req.op = "delete_folder" /\ f.pc = "list"
    /\ UNCHANGED <<config, store, nstate>>
    /\ IF Raises(ctx, f.req.fault, f.bucket_name)
       THEN Answered(w, BaseResp("delete_folder", 500, "Failed to delete folder"),
                     Failed(ctx, rec).log)
       ELSE \E response \in {ListPage(store[f.bucket_name], f.prefix,
                                      f.continuation_token)} :
            \E keys \in {f.objects_to_delete \o KeysOf(response.Contents)} :
            IF response.IsTruncated
            THEN Continue(w, [f EXCEPT !.log = l1,
                                       !.objects_to_delete = keys,
                                       !.continuation_token =
                                           response.NextContinuationToken])
            ELSE IF Len(keys) = 0
            THEN Answered(w, BaseResp("delete_folder", 200, ""), l1)
            ELSE Continue(w, [f EXCEPT !.log = l1,
                                       !.objects_to_delete = keys,
                                       !.pc = "delete"])

\* a variant whose batch is whatever lies under the prefix when it deletes
DeleteFolderDelete_relisting(w) ==
    LET f == inflight[w]
        ctx == [store |-> store, log |-> f.log, err |-> FALSE]
        batch == KeysOf(SelectSeq(store[f.bucket_name],
                                  LAMBDA o : StartsWith(o.Key, f.prefix)))
        c1 == delete_objects(ctx, f.req.fault, f.bucket_name, batch)
    IN
    /\ f.req.op = "delete_folder" /\ f.pc = "delete"
    /\ UNCHANGED <<config, nstate>>
    /\ store' = c1.store
    /\ Answered(w, [BaseResp("delete_folder", 200, "") EXCEPT
                       !.count = <<Len(f.objects_to_delete)>>],
                c1.log)

\* one iteration of `for i in range(0, len(objects_to_delete), 1000)`
DeleteFolderDelete(w) ==
    LET f == inflight[w]
        ctx == [store |-> store, log |-> f.log, err |-> FALSE]
        batch == SubSeq(f.objects_to_delete, f.i,
                        Min(f.i + DeleteBatchSize - 1, Len(f.objects_to_delete)))
        deleted_count == f.deleted_count + Len(batch)
    IN
    /\ f.req.op = "delete_folder" /\ f.pc = "delete"
    /\ UNCHANGED <<config, nstate>>
    /\ \E c1 \in {delete_objects(ctx, f.req.fault, f.bucket_name, batch)} :
          /\ store' = c1.store
          /\ IF c1.err
             THEN Answered(w, BaseResp("delete_folder", 500, "Failed to delete folder"),
                           c1.log)
             ELSE IF f.i + DeleteBatchSize > Len(f.objects_to_delete)
             THEN Answered(w, [BaseResp("delete_folder", 200, "") EXCEPT
                                  !.count = <<deleted_count>>],
                           c1.log)
             ELSE Continue(w, [f EXCEPT !.log = c1.log,
                                        !.i = f.i + DeleteBatchSize,
                                        !.deleted_count = deleted_count])

\* the paths field of a delete-multiple request that carries no JSON object
NoJsonObject == <<<<-2>>>>

\* the iterations of `for virtual_path in paths` from position i on that end
\* without a client call: a path that names a bucket alone is refused with
\* an entry in errors, a path that is no string raises AttributeError
RECURSIVE SkipRefused(_, _, _)
SkipRefused(paths, i, errors) ==
    IF i > Len(paths) THEN [i |-> i, errors |-> errors, crashed |-> FALSE]
    ELSE IF ~IsString(paths[i]) THEN [i |-> i, errors |-> errors, crashed |-> TRUE]
    ELSE IF Len(Split(Strip(paths[i]))) < 2
    THEN SkipRefused(paths, i + 1,
                     Append(errors, [path |-> Strip(paths[i]),
                                     error |-> "Cannot delete buckets"]))
    ELSE [i |-> i, errors |-> errors, crashed |-> FALSE]

\* DELETE /operations/delete-multiple: the gate and delete_multiple down to
\* the first client call.  exc: the class of the injected failure,
\* "ClientError" or "Exception" (any other class, such as a lost connection)
DeleteMultipleBegin(paths, fault, exc) ==
    LET request == [op |-> "delete_multiple", paths |-> paths, fault |-> fault,
                    exc |-> exc]
        status == Gate(session, "delete")
        r == SkipRefused(paths, 1, <<>>)
        Refuse(code, error) ==
            AnsweredAtOnce(request, BaseResp("delete_multiple", code, error), <<>>)
    IN
    /\ UNCHANGED <<config, nstate, store>>
    /\ IF status # 0 THEN Refuse(status, GateError(status))
       ELSE IF paths = NoJsonObject THEN Refuse(500, "Failed to delete items")
       ELSE IF Len(paths) = 0 THEN Refuse(400, "No paths provided")
       ELSE IF r.crashed THEN Refuse(500, "Failed to delete items")
       ELSE IF r.i > Len(paths)
       THEN AnsweredAtOnce(request,
                           [BaseResp("delete_multiple", 200, "") EXCEPT
                               !.count = <<0>>, !.errors = r.errors],
                           <<>>)
       ELSE /\ inflight' = Append(inflight,
                    [req |-> request, pc |-> "call", log |-> <<>>, store0 |-> store,
                     sess |-> Carried(AutoLogin(session)),
                     i |-> r.i, deleted_items |-> 0, errors |-> r.errors,
                     objects_to_delete |-> <<>>])
            /\ UNCHANGED <<req, resp, log, nreq>>
    /\ session' = ArrivalSession(AutoLogin(session))

\* the loop of the frame at position w goes on after the iteration of path i
DeleteMultipleNext(w, log1, deleted_items, errors) ==
    LET f == inflight[w]
        r == SkipRefused(f.req.paths, f.i + 1, errors)
    IN IF r.crashed
       THEN Answered(w, BaseResp("delete_multiple", 500, "Failed to delete items"), log1)
       ELSE IF r.i > Len(f.req.paths)
       THEN Answered(w, [BaseResp("delete_multiple", 200, "") EXCEPT
                            !.count = <<deleted_items>>, !.errors = r.errors],
                     log1)
       ELSE Continue(w, [f EXCEPT !.log = log1, !.pc = "call", !.i = r.i,
                                  !.deleted_items = deleted_items,
                                  !.errors = r.errors,
                                  !.objects_to_delete = <<>>])

\* one client call of the loop of delete_multiple, with the inner
\* try/except ClientError around it and the outer except Exception: the
\* delete_object of a file path, or the list_objects_v2 (pc "call") and the
\* delete_objects (pc "batch") of a path whose key ends with '/'
DeleteMultipleCall(w) ==
    LET f == inflight[w]
        virtual_path == Strip(f.req.paths[f.i])
        path_parts == Split(virtual_path)
        bucket_name == path_parts[1]
        object_key == Join(Tail(path_parts))
        is_folder == EndsWithSlash(object_key)
        ctx == [store |-> store, log |-> f.log, err |-> FALSE]
        lrec == CallRec("list_objects_v2", bucket_name, object_key, 0)
        c1 == IF ~is_folder
              THEN delete_object(ctx, f.req.fault, bucket_name, object_key)
              ELSE IF f.pc = "batch"
              THEN delete_objects(ctx, f.req.fault, bucket_name, f.objects_to_delete)
              ELSE IF Raises(ctx, f.req.fault, bucket_name) THEN Failed(ctx, lrec)
              ELSE [ctx EXCEPT !.log = Append(@, lrec)]
        listed == KeysOf(ListPage(store[bucket_name], object_key, NoToken).Contents)
        deleted_items == IF ~is_folder THEN f.deleted_items + 1
                         ELSE IF f.pc = "batch"
                         THEN f.deleted_items + Len(f.objects_to_delete)
                         ELSE f.deleted_items
    IN
    /\ f.req.op = "delete_multiple"
    /\ UNCHANGED <<config, nstate>>
    /\ store' = c1.store
    /\ IF c1.err
       THEN IF Raised(ctx, f.req.fault, f.req.exc) = "ClientError"
            THEN DeleteMultipleNext(w, c1.log, f.deleted_items,
                                    Append(f.errors, [path |-> virtual_path,
                                                      error |-> "ClientError"]))
            ELSE Answered(w, BaseResp("delete_multiple", 500, "Failed to delete items"),
                          c1.log)
       ELSE IF is_folder /\ f.pc = "call" /\ Len(listed) > 0
       THEN Continue(w, [f EXCEPT !.log = c1.log, !.pc = "batch",
                                  !.objects_to_delete = listed])
       ELSE DeleteMultipleNext(w, c1.log, deleted_items, f.errors)

\* a route decorated with @login_required alone whose body answers `answer`
LoginProtected(request, answer) ==
    /\ nreq' = nreq + 1
    /\ req' = request
    /\ UNCHANGED <<config, inflight, nstate, store>>
    /\ log' = <<>>
    /\ session' = AutoLogin(session)
    /\ resp' = IF login_required(session) # 0
               THEN BaseResp(request.op, 401, GateError(401))
               ELSE answer

\* the JSON body of GET /auth/user
get_user(sess) ==
    LET user == sess.user[1] IN
    [BaseResp("get_user", 200, "") EXCEPT
        !.user = <<[name |-> user.name,
                    roles |-> user.roles,
                    permissions |-> user.permissions,
                    provider |-> IF user.provider = "none" THEN "local"
                                 ELSE user.provider,
                    localDevMode |-> config.LOCAL_DEV_MODE]>>]

\* GET /auth/user
GetUser == LoginProtected([op |-> "get_user"], get_user(AutoLogin(session)))

\* the JSON body of POST /auth/pim/elevate; role: the role field of the
\* request body (<<>> when missing or empty)
elevate_privileges(role) ==
    IF ~config.PIM_ENABLED
    THEN BaseResp("elevate", 400, "PIM is not enabled")
    ELSE IF config.OIDC_PROVIDER \notin {"azure", "azuread"}
    THEN BaseResp("elevate", 400, "PIM is only available with Azure AD")
    ELSE IF role = <<>>
    THEN BaseResp("elevate", 400, "Role is required")
    ELSE BaseResp("elevate", 200, "")

\* POST /auth/pim/elevate
Elevate(role) ==
    LoginProtected([op |-> "elevate", role |-> role], elevate_privileges(role))

----------------------------------------------------------------------------
(* Strings used as store contents and request fields                       *)

S_empty == <<>>    \* ""
S_docs == <<100, 111, 99, 115>>    \* "docs"
S_logs == <<108, 111, 103, 115>>    \* "logs"
S_nope == <<110, 111, 112, 101>>    \* "nope"
S_a_txt == <<97, 46, 116, 120, 116>>    \* "a.txt"
S_b_txt == <<98, 46, 116, 120, 116>>    \* "b.txt"
S_reports == <<114, 101, 112, 111, 114, 116, 115>>    \* "reports"
S_q1_csv == <<113, 49, 46, 99, 115, 118>>    \* "q1.csv"
S_Q1 == <<81, 49>>    \* "Q1"
S_reports_q1_csv == <<114, 101, 112, 111, 114, 116, 115, 47, 113, 49, 46, 99, 115, 118>>    \* "reports/q1.csv"
S_reports_marker == <<114, 101, 112, 111, 114, 116, 115, 47>>    \* "reports/"
S_reports2_x == <<114, 101, 112, 111, 114, 116, 115, 50, 47, 120>>    \* "reports2/x"
S_sub_x == <<115, 117, 98, 47, 120>>    \* "sub/x"
S_x == <<120>>    \* "x"
S_B_txt == <<66, 46, 116, 120, 116>>    \* "B.txt"
S_Zed_x == <<90, 101, 100, 47, 120>>    \* "Zed/x"
S_alpha_y == <<97, 108, 112, 104, 97, 47, 121>>    \* "alpha/y"
S_big == <<98, 105, 103>>    \* "big"
S_big2_x == <<98, 105, 103, 50, 47, 120>>    \* "big2/x"
S_c_txt == <<99, 46, 116, 120, 116>>    \* "c.txt"
S_E_acute == <<201>>    \* "É"
S_a_grave == <<224>>    \* "à"
S_I_dotted == <<304>>    \* "İ"
S_ALPHA_SIGMA == <<913, 931>>    \* "ΑΣ"
S_alpha_sigma == <<945, 963>>    \* "ασ"
P_root == <<>>    \* ""
P_docs == <<100, 111, 99, 115>>    \* "docs"
P_docs_reports == <<100, 111, 99, 115, 47, 114, 101, 112, 111, 114, 116, 115>>    \* "docs/reports"
P_docs_reports_slashed == <<47, 100, 111, 99, 115, 47, 114, 101, 112, 111, 114, 116, 115, 47>>    \* "/docs/reports/"
P_docs_a_txt == <<100, 111, 99, 115, 47, 97, 46, 116, 120, 116>>    \* "docs/a.txt"
P_docs_b_txt == <<100, 111, 99, 115, 47, 98, 46, 116, 120, 116>>    \* "docs/b.txt"
P_docs_reports_q1_csv == <<100, 111, 99, 115, 47, 114, 101, 112, 111, 114, 116, 115, 47, 113, 49, 46, 99, 115, 118>>    \* "docs/reports/q1.csv"
P_docs_reports_sub == <<100, 111, 99, 115, 47, 114, 101, 112, 111, 114, 116, 115, 47, 115, 117, 98>>    \* "docs/reports/sub"
P_nope_reports == <<110, 111, 112, 101, 47, 114, 101, 112, 111, 114, 116, 115>>    \* "nope/reports"
P_nope_a_txt == <<110, 111, 112, 101, 47, 97, 46, 116, 120, 116>>    \* "nope/a.txt"
P_logs_x == <<108, 111, 103, 115, 47, 120>>    \* "logs/x"
P_docs_Q1 == <<100, 111, 99, 115, 47, 81, 49>>    \* "docs/Q1"
P_docs_slashed == <<47, 100, 111, 99, 115, 47>>    \* "/docs/"
P_docs_big == <<100, 111, 99, 115, 47, 98, 105, 103>>    \* "docs/big"
P_docs_big_0000 == <<100, 111, 99, 115, 47, 98, 105, 103, 47, 48, 48, 48, 48>>    \* "docs/big/0000"
B_a == <<65>>    \* "A"
B_q == <<81>>    \* "Q"
B_x == <<88>>    \* "X"
B_new == <<78>>    \* "N"
B_empty == <<>>    \* ""

\* docs: a.txt, reports/q1.csv
DocsStore ==
    (S_docs :> <<[Key |-> S_a_txt, Body |-> B_a],
                 [Key |-> S_reports_q1_csv, Body |-> B_q]>>)

\* the same with a folder marker, a sibling folder sharing the leading
\* characters, a nested object and a second bucket
MarkedStore ==
    (S_docs :> <<[Key |-> S_a_txt, Body |-> B_a],
                 [Key |-> S_reports_marker, Body |-> B_empty],
                 [Key |-> S_reports_q1_csv, Body |-> B_q],
                 [Key |-> S_reports \o <<Slash>> \o S_sub_x, Body |-> B_x],
                 [Key |-> S_reports2_x, Body |-> B_x]>>)
    @@ (S_logs :> <<[Key |-> S_x, Body |-> B_x]>>)

\* docs: names in mixed case, a folder Q1 that holds nothing but its marker
MixedStore ==
    (S_docs :> <<[Key |-> S_B_txt, Body |-> B_x],
                 [Key |-> S_Q1 \o <<Slash>>, Body |-> B_empty],
                 [Key |-> S_Zed_x, Body |-> B_x],
                 [Key |-> S_a_txt, Body |-> B_a],
                 [Key |-> S_alpha_y, Body |-> B_q]>>)

\* docs: names beyond ASCII, in code-point order
AccentStore ==
    (S_docs :> <<[Key |-> S_E_acute, Body |-> B_x],
                 [Key |-> S_a_grave, Body |-> B_a],
                 [Key |-> S_I_dotted, Body |-> B_x],
                 [Key |-> S_ALPHA_SIGMA, Body |-> B_q],
                 [Key |-> S_alpha_sigma, Body |-> B_x]>>)

\* four decimal digits of i
Digits4(i) == <<48 + ((i \div 1000) % 10), 48 + ((i \div 100) % 10),
                48 + ((i \div 10) % 10), 48 + (i % 10)>>

\* docs: a.txt, big/0000 .. big/<n-1>, big2/x
BigStore(n) ==
    (S_docs :> (<<[Key |-> S_a_txt, Body |-> B_a]>>
                \o [i \in 1..n |-> [Key |-> S_big \o <<Slash>> \o Digits4(i - 1),
                                     Body |-> B_x]]
                \o <<[Key |-> S_big2_x, Body |-> B_x]>>))

\* the store keeps every bucket's objects in strictly ascending key order
StoreSorted(st) ==
    \A b \in DOMAIN st : \A i \in 1..(Len(st[b]) - 1) :
        KeyLess(st[b][i].Key, st[b][i + 1].Key)

----------------------------------------------------------------------------
(* Request fields and stores shared by the specifications                  *)

RoleNames == {"S3-Viewer", "S3-Editor", "S3-Admin", "S3-None", "Guest"}

Perms(S) ==
    {f \in [1..Cardinality(S) -> S] : \A i, j \in 1..Cardinality(S) : i # j => f[i] # f[j]}

File(filename, content) == [filename |-> filename, content |-> content]

\* docs: (no objects)
EmptyStore == (S_docs :> <<>>)

\* docs: an object named like the folder next to the folder's contents
ShadowStore ==
    (S_docs :> <<[Key |-> S_Q1, Body |-> B_x],
                 [Key |-> S_reports, Body |-> B_a],
                 [Key |-> S_reports_q1_csv, Body |-> B_q]>>)

InitWith(configs, stores) ==
    /\ config \in configs
    /\ session = EmptySession
    /\ store \in stores
    /\ req = [op |-> "none"]
    /\ resp = BaseResp("none", 0, "")
    /\ log = <<>>
    /\ nstate = 0
    /\ nreq = 0
    /\ inflight = <<>>

----------------------------------------------------------------------------
(* Specification of the whole application, from a fresh deployment and an  *)
(* empty session                                                           *)

Configs ==
    [LOCAL_DEV_MODE : BOOLEAN,
     DEFAULT_ROLE : {"S3-Viewer", "S3-None"},
     ROLE_PERMISSIONS : {ROLE_PERMISSIONS},
     OIDC_PROVIDER : {"keycloak"},
     PIM_ENABLED : {FALSE},
     SESSION_TYPE : {"cookie", "server"}]

StateParams == {NoState} \cup {<<t>> : t \in 1..(MaxLogins + 1)}

\* the fields of a callback request; the handler returns before it reads
\* the fields that are left at one value here
CallbackParams ==
    {[state |-> st, has_code |-> hc, error |-> <<>>, error_description |-> <<>>,
      provider_fault |-> "none", roles |-> {}] :
        st \in StateParams, hc \in BOOLEAN}
    \cup {[state |-> st, has_code |-> FALSE, error |-> e, error_description |-> d,
           provider_fault |-> "none", roles |-> {}] :
              st \in {session.oauth_state, NoState},
              e \in {<<>>, <<"access_denied">>, <<"Invalid state parameter">>, <<"">>},
              d \in {<<>>, <<"User cancelled">>, <<"">>}}
    \cup {[state |-> session.oauth_state, has_code |-> TRUE,
           error |-> <<>>, error_description |-> <<>>,
           provider_fault |-> pf, roles |-> {}] :
              pf \in {"provider", "token", "user_info"}}
    \cup {[state |-> session.oauth_state, has_code |-> TRUE,
           error |-> <<>>, error_description |-> <<>>,
           provider_fault |-> "none", roles |-> {r}] : r \in RoleNames}

Init == InitWith(Configs, {DocsStore})

\* a request arrives at any time, also while earlier requests wait on their
\* calls
Next ==
    \/ /\ nreq + Len(inflight) < MaxRequests
       /\ \/ \E pf \in {"none", "provider", "auth_url"} : Login(pf)
          \/ \E c \in CallbackParams :
                CallbackBegin(c.state, c.has_code, c.error, c.error_description,
                              c.provider_fault, c.roles)
          \/ Logout
          \/ ListBuckets(<<S_docs>>, 0)
          \/ ListObjects(S_docs, S_empty, <<>>, NoToken, 0)
          \/ GetObject(S_docs, S_a_txt, 0, "ClientError")
          \/ UploadObject(S_docs, S_b_txt, <<B_new>>, 0)
          \/ DeleteObject(S_docs, S_a_txt, 0)
          \/ \E path \in {P_root, P_docs} : Browse(path, <<S_docs>>, 0)
          \/ \E path \in {P_root, P_docs} :
                UploadBegin(path, <<File(S_b_txt, B_new)>>, <<>>, <<>>, 0)
          \/ \E path \in {P_root, P_docs} : CreateFolder(path, S_Q1, 0)
          \/ \E path \in {P_docs, P_docs_a_txt} : RenameBegin(path, S_Q1, 0)
          \/ \E path \in {P_docs, P_docs_reports} : DeleteFolderBegin(path, 0)
          \/ \E paths \in {<<>>, <<P_docs_a_txt, P_docs_reports>>} :
                DeleteMultipleBegin(paths, 0, "ClientError")
    \/ \E w \in DOMAIN inflight : CallbackToken(w)
    \/ \E w \in DOMAIN inflight : CallbackUserInfo(w)
    \/ \E w \in DOMAIN inflight : UploadPut(w)
    \/ \E w \in DOMAIN inflight : RenameCopy(w)
    \/ \E w \in DOMAIN inflight : RenameDelete(w)
    \/ \E w \in DOMAIN inflight : DeleteFolderList(w)
    \/ \E w \in DOMAIN inflight : DeleteFolderDelete(w)
    \/ \E w \in DOMAIN inflight : DeleteMultipleCall(w)
    \/ \E w \in DOMAIN inflight : ProtectedCall(w)

Spec == Init /\ [][Next]_vars

----------------------------------------------------------------------------
(* Specification of the login flow alone, over every deployment of the     *)
(* role map and every role list an identity provider may return            *)

MaxRoleRequests == 2

RoleConfigs ==
    [LOCAL_DEV_MODE : {FALSE},
     DEFAULT_ROLE : RoleNames,
     ROLE_PERMISSIONS : {ROLE_PERMISSIONS, ROLE_PERMISSIONS_WITH_EMPTY},
     OIDC_PROVIDER : {"keycloak"},
     PIM_ENABLED : {FALSE},
     SESSION_TYPE : {"cookie", "server"}]

InitRoles == InitWith(RoleConfigs, {DocsStore})

NextRoles ==
    \/ /\ nreq + Len(inflight) < MaxRoleRequests
       /\ \/ Login("none")
          \/ \E roles \in SUBSET RoleNames :
                CallbackBegin(session.oauth_state, TRUE, <<>>, <<>>, "none", roles)
          \/ Logout
    \/ \E w \in DOMAIN inflight : CallbackToken(w)
    \/ \E w \in DOMAIN inflight : CallbackUserInfo(w)

SpecRoles == InitRoles /\ [][NextRoles]_vars

----------------------------------------------------------------------------
(* Specification of the routes that issue at most one object-store call:   *)
(* a local development deployment (the mock S3-Admin user is logged in by  *)
(* the gate) over the sample stores, with a wide range of request fields   *)

MaxFSRequests == 1

MaxFault == 2

DevConfig ==
    [LOCAL_DEV_MODE |-> TRUE, DEFAULT_ROLE |-> "S3-Admin",
     ROLE_PERMISSIONS |-> ROLE_PERMISSIONS,
     OIDC_PROVIDER |-> "keycloak", PIM_ENABLED |-> FALSE,
     SESSION_TYPE |-> "cookie"]

FSStores ==
    {DocsStore, MarkedStore, EmptyStore, ShadowStore, MixedStore, AccentStore}

FSPaths ==
    {P_root, P_docs, P_docs_reports, P_docs_reports_slashed, P_docs_a_txt,
     P_docs_reports_q1_csv, P_nope_reports, P_logs_x, P_docs_Q1, S_nope,
     P_docs_slashed}

FSNames == {S_empty, S_Q1, S_a_txt}

FSUploads ==
    {<<>>,
     <<File(S_b_txt, B_new)>>,
     <<File(S_empty, B_new)>>,
     <<File(S_b_txt, B_new), File(S_x, B_x)>>,
     <<File(S_empty, B_new), File(S_x, B_x)>>,
     <<File(S_x, B_new), File(S_x, B_x)>>,
     <<File(S_b_txt, B_new), File(S_x, B_x), File(S_Q1, B_q)>>}

\* the parts named 'files[]' and the part named 'file' of an upload form
FSUploadForms ==
    {[files |-> files, file |-> <<>>] : files \in FSUploads}
        \cup {[files |-> <<>>, file |-> <<File(S_c_txt, B_q)>>],
              [files |-> <<>>, file |-> <<File(S_empty, B_q)>>],
              [files |-> <<File(S_b_txt, B_new)>>, file |-> <<File(S_c_txt, B_q)>>]}

FSRelativePaths == {<<>>, <<S_sub_x>>, <<S_empty, S_sub_x>>}

FSDeletePaths ==
    {P_docs, P_docs_reports, P_docs_a_txt, P_docs_b_txt, P_nope_a_txt,
     P_docs_slashed}

FSDeletePairs == {P_docs, P_docs_reports, P_docs_a_txt, P_nope_a_txt}

FSDeleteLists ==
    {<<>>} \cup {<<p>> : p \in FSDeletePaths}
           \cup {<<p, q>> : p \in FSDeletePairs, q \in FSDeletePairs}
           \cup {<<P_nope_a_txt, P_docs_a_txt, P_docs_reports>>,
                 <<P_docs_a_txt, P_docs_reports_q1_csv>>,
                 <<P_docs_a_txt, NotAString>>, <<NotAString, P_docs_a_txt>>,
                 <<P_docs, NotAString>>, NoJsonObject}

FSBuckets == {S_docs, S_nope}

FSKeys == {S_a_txt, S_b_txt, S_reports_q1_csv}

FSExceptions == {"ClientError", "Exception"}

InitFS == InitWith({DevConfig}, FSStores)

\* the requests that read the store or issue one call
NextFS ==
    \/ /\ nreq + Len(inflight) < MaxFSRequests
       /\ \/ \E order \in Perms(DOMAIN store), fault \in 0..1 :
                ListBuckets(order, fault)
          \/ \E bucket \in FSBuckets, prefix \in {S_empty, S_reports_marker},
                max_keys \in {<<>>, <<1>>, <<2>>, NotAnInteger},
                token \in {NoToken, S_a_txt}, fault \in 0..1 :
                ListObjects(bucket, prefix, max_keys, token, fault)
          \/ \E bucket \in FSBuckets, key \in FSKeys, fault \in 0..1,
                exc \in FSExceptions :
                GetObject(bucket, key, fault, exc)
          \/ \E bucket \in FSBuckets, key \in FSKeys, file \in {<<>>, <<B_new>>},
                fault \in 0..1 :
                UploadObject(bucket, key, file, fault)
          \/ \E bucket \in FSBuckets, key \in FSKeys, fault \in 0..1 :
                DeleteObject(bucket, key, fault)
          \/ \E path \in FSPaths, order \in Perms(DOMAIN store), fault \in 0..1 :
                Browse(path, order, fault)
          \/ \E path \in FSPaths \cup {NotAString},
                name \in FSNames \cup {NotAString}, fault \in 0..1 :
                CreateFolder(path, name, fault)
    \/ \E w \in DOMAIN inflight : ProtectedCall(w)

SpecFS == InitFS /\ [][NextFS]_vars

----------------------------------------------------------------------------
(* Specification of the uploads, over the same deployment and stores       *)

MaxUpRequests == 1

UpStores == {DocsStore, MarkedStore, EmptyStore}

InitUp == InitWith({DevConfig}, UpStores)

NextUp ==
    \/ /\ nreq < MaxUpRequests
       /\ inflight = <<>>
       /\ \E path \in {P_root, P_docs, P_docs_reports_slashed, P_nope_reports},
             form \in FSUploadForms, rel \in FSRelativePaths,
             fault \in 0..(MaxFault + 1) :
             UploadBegin(path, form.files, form.file, rel, fault)
    \/ \E w \in DOMAIN inflight : UploadPut(w)

SpecUp == InitUp /\ [][NextUp]_vars

----------------------------------------------------------------------------
(* Specification of the renames and deletions, over the same deployment    *)
(* and stores                                                              *)

MaxDelRequests == 1

DelStores == {DocsStore, MarkedStore, ShadowStore, EmptyStore}

InitDel == InitWith({DevConfig}, DelStores)

NextDel ==
    \/ /\ nreq < MaxDelRequests
       /\ inflight = <<>>
       /\ \/ \E path \in FSPaths \cup {NotAString},
                name \in FSNames \cup {NotAString}, fault \in 0..MaxFault :
                RenameBegin(path, name, fault)
          \/ \E path \in FSPaths \cup {P_docs_reports_sub, NotAString},
                fault \in 0..MaxFault :
                DeleteFolderBegin(path, fault)
          \/ \E paths \in FSDeleteLists, fault \in 0..MaxFault,
                exc \in FSExceptions :
                DeleteMultipleBegin(paths, fault, exc)
    \/ \E w \in DOMAIN inflight : RenameCopy(w)
    \/ \E w \in DOMAIN inflight : RenameDelete(w)
    \/ \E w \in DOMAIN inflight : DeleteFolderList(w)
    \/ \E w \in DOMAIN inflight : DeleteFolderDelete(w)
    \/ \E w \in DOMAIN inflight : DeleteMultipleCall(w)

SpecDel == InitDel /\ [][NextDel]_vars

----------------------------------------------------------------------------
(* Specification of the operations over a folder too large for one list    *)
(* page or one delete batch                                                *)

MaxLargeRequests == 1

MaxBig == 2001

BigSizes ==
    {0, 1, DeleteBatchSize - 1, DeleteBatchSize, DeleteBatchSize + 1, 1500,
     2 * DeleteBatchSize, MaxBig}

InitLarge == InitWith({DevConfig}, {BigStore(n) : n \in BigSizes})

NextLarge ==
    \/ /\ nreq < MaxLargeRequests
       /\ inflight = <<>>
       /\ \/ Browse(P_docs, <<S_docs>>, 0)
          \/ UploadBegin(P_docs_big, <<File(S_b_txt, B_new)>>, <<>>, <<>>, 0)
          \/ CreateFolder(P_docs_big, S_Q1, 0)
          \/ RenameBegin(P_docs_big_0000, S_Q1, 0)
          \/ \E path \in {P_docs, P_docs_big, P_docs_a_txt},
                fault \in 0..(MaxFault + 2) :
                DeleteFolderBegin(path, fault)
          \/ \E paths \in {<<P_docs_big_0000, P_docs_big>>, <<P_docs_big>>} :
                DeleteMultipleBegin(paths, 0, "ClientError")
    \/ \E w \in DOMAIN inflight : UploadPut(w)
    \/ \E w \in DOMAIN inflight : RenameCopy(w)
    \/ \E w \in DOMAIN inflight : RenameDelete(w)
    \/ \E w \in DOMAIN inflight : DeleteFolderList(w)
    \/ \E w \in DOMAIN inflight : DeleteFolderDelete(w)
    \/ \E w \in DOMAIN inflight : DeleteMultipleCall(w)
    \/ \E w \in DOMAIN inflight : ProtectedCall(w)

SpecLarge == InitLarge /\ [][NextLarge]_vars

----------------------------------------------------------------------------
(* Specification of folder creation followed by a second request: the     *)
(* same or another creation, or a browse of the parent path; over small    *)
(* stores and over a folder that fills one list page                       *)

MaxSeqRequests == 2

SeqStores == {DocsStore, MixedStore, BigStore(S3MaxKeys)}

InitSeq == InitWith({DevConfig}, SeqStores)

NextSeq ==
    \/ /\ nreq + Len(inflight) < MaxSeqRequests
       /\ \/ \E path \in {P_root, P_docs, P_docs_big}, name \in {S_empty, S_Q1},
                fault \in 0..1 :
                CreateFolder(path, name, fault)
          \/ /\ req.op = "create_folder"
             /\ Browse(req.path, <<S_docs>>, 0)
    \/ \E w \in DOMAIN inflight : ProtectedCall(w)

SpecSeq == InitSeq /\ [][NextSeq]_vars

----------------------------------------------------------------------------
(* Specification of folder deletions and uploads handled call by call,     *)
(* the calls of several requests interleaving, while folder creations into *)
(* the same prefix and listings are served between the calls               *)

MaxConcRequests == 2

MaxInflight == 2

ConcStores == {DocsStore, MarkedStore, BigStore(S3MaxKeys + 1)}

InitConc == InitWith({DevConfig}, ConcStores)

ConcUploads ==
    {<<File(S_b_txt, B_new)>>, <<File(S_b_txt, B_new), File(S_c_txt, B_x)>>}

\* the folder of the store the requests are about: docs/big in the store
\* that has one (no request removes its neighbour big2/x), docs/reports in
\* the others
ConcFolder == IF HasKey(store[S_docs], S_big2_x) THEN P_docs_big ELSE P_docs_reports

NextConc ==
    \/ /\ nreq + Len(inflight) < MaxConcRequests
       /\ \/ /\ Len(inflight) < MaxInflight
             /\ \/ \E path \in {ConcFolder, P_nope_reports} :
                      DeleteFolderBegin(path, 0)
                \/ \E files \in ConcUploads :
                      UploadBegin(ConcFolder, files, <<>>, <<>>, 0)
                \/ CreateFolder(ConcFolder, S_Q1, 0)
                \/ Browse(P_docs_reports, <<S_docs>>, 0)
    \/ \E w \in DOMAIN inflight : DeleteFolderList(w)
    \/ \E w \in DOMAIN inflight : DeleteFolderDelete(w)
    \/ \E w \in DOMAIN inflight : UploadPut(w)
    \/ \E w \in DOMAIN inflight : ProtectedCall(w)

SpecConc == InitConc /\ [][NextConc]_vars

----------------------------------------------------------------------------
(* Specification of folder deletions handled call by call, the calls of    *)
(* several requests interleaving, over folders of no, one, two and three   *)
(* list pages; a request that has started is run to its answer             *)

MaxListRequests == 2

ListSizes == {0, 1, S3MaxKeys, S3MaxKeys + 1, 2 * S3MaxKeys, 2 * S3MaxKeys + 1}

ListPaths == {P_docs, P_docs_big, P_docs_a_txt, P_docs_reports, P_nope_reports}

InitList == InitWith({DevConfig}, {MarkedStore} \cup {BigStore(n) : n \in ListSizes})

NextList ==
    \/ /\ nreq + Len(inflight) < MaxListRequests
       /\ \E path \in ListPaths : DeleteFolderBegin(path, 0)
    \/ \E w \in DOMAIN inflight : DeleteFolderList(w)
    \/ \E w \in DOMAIN inflight : DeleteFolderDelete(w)

SpecList ==
    /\ InitList /\ [][NextList]_vars
    /\ WF_vars(\E w \in DOMAIN inflight : DeleteFolderList(w))
    /\ WF_vars(\E w \in DOMAIN inflight : DeleteFolderDelete(w))

----------------------------------------------------------------------------
(* Specification of file renames in one bucket handled call by call, the   *)
(* calls of several requests interleaving with each other and with         *)
(* listings of the bucket                                                  *)

MaxRenRequests == 2

RenPaths == {P_docs_a_txt, P_docs_b_txt, P_docs_reports_q1_csv, P_docs}

RenNames == {S_a_txt, S_b_txt, S_Q1}

InitRen == InitWith({DevConfig}, {DocsStore})

\* the new name is the name the path already ends with
SameName(oldPath, newName) ==
    LET old_parts == Split(Strip(oldPath)) IN
    Strip(newName) = old_parts[Len(old_parts)]

NextRen ==
    \/ /\ nreq + Len(inflight) < MaxRenRequests
       /\ \/ \E oldPath \in RenPaths, newName \in RenNames :
                /\ ~SameName(oldPath, newName)
                /\ RenameBegin(oldPath, newName, 0)
          \/ Browse(P_docs, <<S_docs>>, 0)
    \/ \E w \in DOMAIN inflight : RenameCopy(w)
    \/ \E w \in DOMAIN inflight : RenameDelete(w)
    \/ \E w \in DOMAIN inflight : ProtectedCall(w)

SpecRen == InitRen /\ [][NextRen]_vars

----------------------------------------------------------------------------
(* Specification of the handling of paths: browse and upload are given     *)
(* every string of bounded length over the characters '/', 'a' and 'b'     *)

MaxPathLen == 5

PathAlphabet == {Slash, 97, 98}

PathStrings == UNION {[1..n -> PathAlphabet] : n \in 0..MaxPathLen}

\* a: b (an object), b/a
PathStore ==
    (<<97>> :> <<[Key |-> <<98>>, Body |-> B_x],
                 [Key |-> <<98, Slash, 97>>, Body |-> B_a]>>)

InitPath == InitWith({DevConfig}, {PathStore})

NextPath ==
    \/ /\ nreq < 1
       /\ inflight = <<>>
       /\ \/ \E path \in PathStrings : Browse(path, <<<<97>>>>, 0)
          \/ \E path \in PathStrings :
                UploadBegin(path, <<File(S_x, B_x)>>, <<>>, <<>>, 0)
    \/ \E w \in DOMAIN inflight : UploadPut(w)
    \/ \E w \in DOMAIN inflight : ProtectedCall(w)

SpecPath == InitPath /\ [][NextPath]_vars

----------------------------------------------------------------------------
(* Specification of the life of a session: the requests of one browser on  *)
(* a Keycloak deployment, whose provider waits on the network in           *)
(* exchange_code_for_token and in get_user_info.  Logins, callbacks,       *)
(* logouts and the operations that read the session arrive while earlier   *)
(* callbacks and uploads of the browser are still waiting.                 *)

MaxSessionRequests == 5

MaxSessionInflight == 2

SessionConfigs ==
    [LOCAL_DEV_MODE : BOOLEAN,
     DEFAULT_ROLE : {"S3-Viewer"},
     ROLE_PERMISSIONS : {ROLE_PERMISSIONS},
     OIDC_PROVIDER : {"keycloak"},
     PIM_ENABLED : BOOLEAN,
     SESSION_TYPE : {"cookie", "server"}]

InitSession == InitWith(SessionConfigs, {DocsStore})

\* the states the login attempts were given so far
IssuedStates == {<<k>> : k \in 1..nstate}

\* the callbacks of the browser: each carries no state or a state that a
\* login attempt was given
SessionCallbacks ==
    {[state |-> st, has_code |-> TRUE, provider_fault |-> "none", roles |-> {r}] :
        st \in IssuedStates \cup {NoState}, r \in {"S3-Viewer", "S3-Admin"}}
    \cup {[state |-> st, has_code |-> TRUE, provider_fault |-> pf, roles |-> {}] :
              st \in IssuedStates, pf \in {"token", "user_info"}}
    \cup {[state |-> st, has_code |-> FALSE, provider_fault |-> "none", roles |-> {}] :
              st \in IssuedStates}

NextSession ==
    \/ /\ nreq + Len(inflight) < MaxSessionRequests
       /\ \/ Login("none")
          \/ Logout
          \/ GetUser
          \/ \E role \in {S_empty, S_x} : Elevate(role)
          \/ /\ Len(inflight) < MaxSessionInflight
             /\ \/ \E c \in SessionCallbacks :
                      CallbackBegin(c.state, c.has_code, <<>>, <<>>,
                                    c.provider_fault, c.roles)
                \/ UploadBegin(P_docs, <<File(S_b_txt, B_new)>>, <<>>, <<>>, 0)
                \/ Browse(P_docs, <<S_docs>>, 0)
    \/ \E w \in DOMAIN inflight : CallbackToken(w)
    \/ \E w \in DOMAIN inflight : CallbackUserInfo(w)
    \/ \E w \in DOMAIN inflight : UploadPut(w)
    \/ \E w \in DOMAIN inflight : ProtectedCall(w)

SpecSession == InitSession /\ [][NextSession]_vars

----------------------------------------------------------------------------
(* Properties                                                              *)

MutatingOps == {"upload", "create_folder", "rename", "delete_folder", "delete_multiple"}

ProtectedOps == MutatingOps \cup {"browse"}

\* the operations on buckets and objects by name
ObjectRoutes ==
    {"list_buckets", "list_objects", "get_object", "upload_object", "delete_object"}

\* the permission the specification demands for an operation
RequiredPermission(op) ==
    IF op \in {"delete_folder", "delete_multiple"} THEN "delete"
    ELSE IF op = "browse" THEN "view" ELSE "write"

\* the step answers a request of the given operation
Handles(op) == nreq' = nreq + 1 /\ req'.op = op

\* a request of one of the operations arrives in the step: it is answered in
\* the step or its handler starts
Arrives(ops) ==
    \/ /\ nreq' = nreq + 1
       /\ Len(inflight') = Len(inflight)
       /\ req'.op \in ops
    \/ /\ Len(inflight') = Len(inflight) + 1
       /\ inflight'[Len(inflight')].req.op \in ops

\* the request that arrives in the step
Arriving ==
    IF Len(inflight') > Len(inflight) THEN inflight'[Len(inflight')].req ELSE req'

\* the session of the request that arrives in the step, as its handler has
\* left it at the end of the step
ArrivedSession ==
    IF Cookie /\ Len(inflight') > Len(inflight)
    THEN inflight'[Len(inflight')].sess ELSE session'

\* the step is one of a request of one of the operations: its arrival, one
\* of its calls or its answer
StepOf(ops) ==
    \/ Arrives(ops)
    \/ /\ Len(inflight') = Len(inflight)
       /\ \E w \in DOMAIN inflight :
             inflight'[w] # inflight[w] /\ inflight[w].req.op \in ops
    \/ /\ Len(inflight') < Len(inflight)
       /\ req'.op \in ops

\* the callback that arrives in the step is answered 400 Invalid state
\* parameter in the step, and nothing else happens
RefusedInvalidState ==
    /\ nreq' = nreq + 1 /\ inflight' = inflight
    /\ resp'.status = 400 /\ resp'.error = "Invalid state parameter"
    /\ session' = session

\* the frame of the request the step answers, when the request was handled
\* call by call
AnsweredFrame ==
    CHOOSE w \in DOMAIN inflight :
        inflight' = SubSeq(inflight, 1, w - 1) \o SubSeq(inflight, w + 1, Len(inflight))

\* the store as it was when the request the step answers arrived
StoreBefore ==
    IF Len(inflight') < Len(inflight) THEN inflight[AnsweredFrame].store0 ELSE store

\* the keys of a bucket that start with a prefix
KeysUnder(st, bucket, prefix) ==
    IF bucket \in DOMAIN st
    THEN {st[bucket][i].Key : i \in {j \in 1..Len(st[bucket]) :
                                        StartsWith(st[bucket][j].Key, prefix)}}
    ELSE {}

\* bucket and folder prefix a virtual path denotes
PathBucket(path) == Split(Strip(path))[1]

PathFolderPrefix(path) == Join(Tail(Split(Strip(path)))) \o <<Slash>>

NamesBucketOnly(path) == Len(Split(Strip(path))) < 2

\* every field of the request that holds a path or a name is a string
WellFormed(r) ==
    CASE r.op = "rename" -> IsString(r.oldPath) /\ IsString(r.newName)
      [] r.op = "delete_folder" -> IsString(r.path)
      [] r.op = "delete_multiple" ->
            r.paths # NoJsonObject /\ \A i \in DOMAIN r.paths : IsString(r.paths[i])
      [] OTHER -> TRUE

\* the path has a bucket and at least one further segment, and objects exist
\* under the prefix it denotes
DenotesFolder(st, path) ==
    /\ ~NamesBucketOnly(path)
    /\ KeysUnder(st, PathBucket(path), PathFolderPrefix(path)) # {}

CallsOf(l, op) == {i \in 1..Len(l) : l[i].op = op}

CeilDiv(a, b) == (a + b - 1) \div b

\* C1: a session whose permission set lacks the permission a mutating
\* operation requires is answered 403 and the request issues no object-store
\* call at all, whatever its fields are.
C1_ForbiddenWithoutPermission ==
    [][(/\ Arrives(MutatingOps)
        /\ HasUser(ArrivedSession)
        /\ RequiredPermission(Arriving.op) \notin ArrivedSession.user[1].permissions)
       => /\ nreq' = nreq + 1 /\ inflight' = inflight
          /\ resp'.status = 403 /\ log' = <<>> /\ store' = store]_vars

C1_Witness ==
    /\ req.op = "delete_multiple"
    /\ req.paths # <<>>
    /\ HasUser(session)
    /\ session.user[1].provider = config.OIDC_PROVIDER
    /\ session.user[1].roles = {"S3-Viewer"}
    /\ session.user[1].permissions = {"view"}
    /\ resp.status = 403
    /\ log = <<>>

\* C2 as stated: every protected operation invoked while the session holds
\* no user is answered 401 and issues no object-store call.
C2_UnauthenticatedAlways ==
    [][(Arrives(ProtectedOps) /\ ~HasUser(session))
       => (nreq' = nreq + 1 /\ resp'.status = 401 /\ log' = <<>>)]_vars

\* C2 amended: outside local development mode, every protected operation
\* invoked while the session holds no user is answered 401 (never 403), its
\* handler body does not run and no object-store call is issued.  In local
\* development mode the gate stores the mock user in the session of the
\* request instead: the user has the configured default role and the
\* permissions the role map gives that role (every permission when the map
\* does not hold the role); the request is answered 403 without a call when
\* these lack the permission the operation requires, and otherwise its
\* handler runs and the answer is neither 401 nor 403.
C2_UnauthenticatedOutsideDevMode ==
    [][(Arrives(ProtectedOps) /\ ~HasUser(session))
       => IF config.LOCAL_DEV_MODE
          THEN LET granted ==
                       IF config.DEFAULT_ROLE \in DOMAIN config.ROLE_PERMISSIONS
                       THEN config.ROLE_PERMISSIONS[config.DEFAULT_ROLE]
                       ELSE AllPermissions
               IN /\ HasUser(ArrivedSession)
                  /\ ArrivedSession.user[1].roles = {config.DEFAULT_ROLE}
                  /\ ArrivedSession.user[1].permissions = granted
                  /\ IF RequiredPermission(Arriving.op) \in granted
                     THEN nreq' = nreq + 1 => resp'.status \notin {401, 403}
                     ELSE /\ nreq' = nreq + 1 /\ inflight' = inflight
                          /\ resp'.status = 403 /\ log' = <<>> /\ store' = store
          ELSE /\ nreq' = nreq + 1 /\ inflight' = inflight
               /\ resp'.status = 401 /\ log' = <<>> /\ store' = store
               /\ ~HasUser(session')]_vars

C2_Witness ==
    /\ ~config.LOCAL_DEV_MODE
    /\ req.op = "delete_folder"
    /\ ~HasUser(session)
    /\ resp.status = 401
    /\ nreq > 1

\* in local development mode with the default role S3-Viewer a folder
\* deletion that came without a user was refused with 403: the mock user
\* may only view
C2_WitnessMockUser ==
    /\ config.LOCAL_DEV_MODE /\ config.DEFAULT_ROLE = "S3-Viewer"
    /\ nreq = 1
    /\ req.op = "delete_folder"
    /\ resp.status = 403 /\ log = <<>>
    /\ HasUser(session) /\ session.user[1].permissions = {"view"}

\* C3 as stated: a callback whose state parameter is absent or differs from
\* the state stored in the session fails with InvalidState and writes no user.
C3_InvalidStateAlways ==
    [][(/\ Arrives({"callback"})
        /\ (Arriving.state = NoState \/ Arriving.state # session.oauth_state))
       => (/\ nreq' = nreq + 1 /\ inflight' = inflight
           /\ resp'.status = 400
           /\ resp'.error = "Invalid state parameter"
           /\ session'.user = session.user)]_vars

\* C3 amended: outside local development mode such a callback is answered
\* InvalidState when it arrives, before any call to the identity provider,
\* whatever requests of the browser are waiting, and leaves the session as it
\* was; in local development mode the callback redirects without checking the
\* state, and writes no user either.
C3_InvalidStateOutsideDevMode ==
    [][(/\ Arrives({"callback"})
        /\ (Arriving.state = NoState \/ Arriving.state # session.oauth_state))
       => (/\ nreq' = nreq + 1 /\ inflight' = inflight
           /\ session' = session
           /\ IF config.LOCAL_DEV_MODE
              THEN resp'.status = 302
              ELSE resp'.status = 400 /\ resp'.error = "Invalid state parameter")]_vars

C3_Witness ==
    /\ ~config.LOCAL_DEV_MODE
    /\ req.op = "callback"
    /\ req.state # NoState
    /\ req.has_code
    /\ session.oauth_state # NoState
    /\ req.state # session.oauth_state
    /\ resp.error = "Invalid state parameter"
    /\ ~HasUser(session)

\* on a session store a callback is refused that carries the state of a
\* callback of the browser that still waits for the identity provider: the
\* waiting callback has removed the state from the store
C3_WitnessWhileWaiting ==
    /\ ~config.LOCAL_DEV_MODE
    /\ req.op = "callback" /\ req.state # NoState /\ req.has_code
    /\ resp.status = 400 /\ resp.error = "Invalid state parameter"
    /\ \E w \in DOMAIN inflight :
          /\ inflight[w].req.op = "callback"
          /\ inflight[w].req.state = req.state
    /\ session.oauth_state = NoState

\* C4: rename(oldPath, newName) of a folder moves every object under the old
\* prefix to the same relative sub-path under the new sibling prefix, leaves
\* nothing under the old prefix and reports itemsRenamed = number moved.
C4_FolderRenameMovesObjects ==
    [][(/\ Handles("rename")
        /\ req'.fault = 0
        /\ WellFormed(req')
        /\ Strip(req'.newName) # <<>>
        /\ DenotesFolder(StoreBefore, req'.oldPath))
       => LET st0 == StoreBefore
              bucket == PathBucket(req'.oldPath)
              old_prefix == PathFolderPrefix(req'.oldPath)
              old_parts == Split(Strip(req'.oldPath))
              new_prefix == Join(Append(SubSeq(old_parts, 2, Len(old_parts) - 1),
                                        Strip(req'.newName))) \o <<Slash>>
              moved == KeysUnder(st0, bucket, old_prefix)
          IN /\ resp'.status = 200
             /\ resp'.count = <<Cardinality(moved)>>
             /\ KeysUnder(store', bucket, old_prefix) = {}
             /\ \A k \in moved :
                   LET nk == new_prefix \o SubSeq(k, Len(old_prefix) + 1, Len(k))
                   IN /\ HasKey(store'[bucket], nk)
                      /\ BodyOf(store'[bucket], nk) = BodyOf(st0[bucket], k)]_vars

\* C5: deleteFolder on a prefix holding N objects lists page by
\* page until the listing is not truncated, issues ceil(N/1000) batched
\* deletes of at most 1000 keys, empties the prefix and reports
\* deletedCount = N.
C5_DeleteFolderReportsN ==
    [][(/\ Handles("delete_folder")
        /\ req'.fault = 0
        /\ ~NamesBucketOnly(req'.path)
        /\ PathBucket(req'.path) \in DOMAIN store)
       => LET N == Cardinality(KeysUnder(StoreBefore, PathBucket(req'.path),
                                         PathFolderPrefix(req'.path)))
          IN /\ resp'.status = 200
             /\ resp'.count = <<N>>
             /\ Cardinality(CallsOf(log', "delete_objects")) = CeilDiv(N, 1000)
             /\ \A i \in CallsOf(log', "delete_objects") : log'[i].n <= 1000
             /\ KeysUnder(store', PathBucket(req'.path),
                          PathFolderPrefix(req'.path)) = {}]_vars

\* what deleteFolder does, N = 0 included: one list call per page of 1000
\* keys, ceil(N/1000) batched deletes of at most 1000 keys each, the prefix
\* left empty and every other object as it was, deletedCount = N for N >= 1;
\* for N = 0 it issues one list call and no delete call and answers 200
\* without a deletedCount
C5_DeleteFolderBatches ==
    [][(/\ Handles("delete_folder")
        /\ req'.fault = 0
        /\ ~NamesBucketOnly(req'.path)
        /\ PathBucket(req'.path) \in DOMAIN store)
       => \E st0 \in {StoreBefore} :
          LET bucket == PathBucket(req'.path)
              prefix == PathFolderPrefix(req'.path)
              under == KeysUnder(st0, bucket, prefix)
              N == Cardinality(under)
              lists == CallsOf(log', "list_objects_v2")
              deletes == CallsOf(log', "delete_objects")
          IN /\ resp'.status = 200
             /\ resp'.count = IF N = 0 THEN NoCount ELSE <<N>>
             /\ Cardinality(lists) = IF N = 0 THEN 1 ELSE CeilDiv(N, 1000)
             /\ \A i \in lists : \A j \in deletes : i < j
             /\ Cardinality(deletes) = CeilDiv(N, 1000)
             /\ \A i \in deletes : log'[i].n <= 1000 /\ log'[i].n >= 1
             /\ Cardinality(lists) + Cardinality(deletes) = Len(log')
             /\ KeysUnder(store', bucket, prefix) = {}
             /\ \A b \in DOMAIN st0 \ {bucket} : store'[b] = st0[b]
             /\ store'[bucket] =
                   SelectSeq(st0[bucket],
                             LAMBDA o : ~StartsWith(o.Key, prefix))]_vars

\* a folder of 1500 objects was deleted with two list calls and two batches
C5_Witness ==
    /\ req.op = "delete_folder"
    /\ req.fault = 0
    /\ resp.status = 200
    /\ resp.count = <<1500>>
    /\ Len(log) = 4
    /\ log[3].op = "delete_objects" /\ log[3].n = 1000
    /\ log[4].op = "delete_objects" /\ log[4].n = 500
    /\ KeysUnder(store, S_docs, S_big \o <<Slash>>) = {}

\* C6: deleteMultiple given a path that denotes a folder deletes every object
\* under that folder's prefix, alone or mixed with file paths.
C6_DeleteMultipleEmptiesFolders ==
    [][(/\ Handles("delete_multiple")
        /\ req'.fault = 0)
       => \A i \in 1..Len(req'.paths) :
             (IsString(req'.paths[i]) /\ DenotesFolder(StoreBefore, req'.paths[i]))
             => KeysUnder(store', PathBucket(req'.paths[i]),
                          PathFolderPrefix(req'.paths[i])) = {}]_vars

\* what becomes of the i-th path of the deleteMultiple request r, told from
\* the request alone: refused, failed at the store, or deleted
C7_Refused(r, i) == NamesBucketOnly(r.paths[i])

C7_CallNo(r, i) == Cardinality({j \in 1..i : ~C7_Refused(r, j)})

C7_StoreFailed(r, i) ==
    /\ ~C7_Refused(r, i)
    /\ \/ PathBucket(r.paths[i]) \notin DOMAIN store
       \/ C7_CallNo(r, i) = r.fault

C7_Bad(r) == {i \in 1..Len(r.paths) : C7_Refused(r, i) \/ C7_StoreFailed(r, i)}

\* each path is handled on its own
PerPath(r) ==
    /\ resp'.status = 200
    /\ resp'.count = <<Len(r.paths) - Cardinality(C7_Bad(r))>>
    /\ Len(resp'.errors) = Cardinality(C7_Bad(r))
    /\ \A i \in C7_Bad(r) :
          LET e == resp'.errors[Cardinality({j \in C7_Bad(r) : j <= i})]
          IN /\ e.path = Strip(r.paths[i])
             /\ e.error = IF C7_Refused(r, i) THEN "Cannot delete buckets"
                          ELSE "ClientError"
    /\ Len(log') = Cardinality({i \in 1..Len(r.paths) : ~C7_Refused(r, i)})
    /\ \A i \in 1..Len(r.paths) :
          ~C7_Refused(r, i) =>
             /\ log'[C7_CallNo(r, i)].Bucket = PathBucket(r.paths[i])
             /\ \/ i \in C7_Bad(r)
                \/ ~HasKey(store'[PathBucket(r.paths[i])],
                           Join(Tail(Split(Strip(r.paths[i])))))

\* C7: deleteMultiple handles each path on its own: a refused bucket path or
\* a failed object-store call becomes one {path, error} entry, in request
\* order; every other path, before or after a failure, still gets its
\* object-store call, and the answer is 200 with the aggregate deletedCount
\* and the list of per-path errors.
C7_PerPathErrors ==
    [][(/\ Handles("delete_multiple")
        /\ req'.paths # NoJsonObject /\ req'.paths # <<>>)
       => PerPath(req')]_vars

\* the same for the requests whose paths are all strings and whose failing
\* store call, if any, raises ClientError
C7_PerPathClientErrors ==
    [][(/\ Handles("delete_multiple")
        /\ WellFormed(req') /\ req'.paths # <<>>
        /\ req'.exc = "ClientError")
       => PerPath(req')]_vars

\* three paths were given, the first names a bucket that does not exist: one
\* error entry, the two other objects deleted
C7_WitnessClientError ==
    /\ req.op = "delete_multiple"
    /\ Len(req.paths) = 3
    /\ req.exc = "ClientError"
    /\ Len(resp.errors) = 1
    /\ resp.count = <<2>>
    /\ Len(log) = 3
    /\ ~HasKey(store[S_docs], S_a_txt)

\* C8: when the put of the k-th file of a multi-file upload fails, the files
\* put before it stay in the store and the answer reports how many files
\* succeeded and which failed.
C8_UploadReportsPartialFailure ==
    [][(/\ Handles("upload")
        /\ Strip(req'.path) # <<>>
        /\ PathBucket(req'.path) \in DOMAIN store
        /\ req'.fault >= 1
        /\ Len(log') = req'.fault
        /\ log'[req'.fault].op = "put_object")
       => /\ \A i \in 1..(req'.fault - 1) :
                HasKey(store'[log'[i].Bucket], log'[i].Key)
          /\ resp'.count = <<req'.fault - 1>>]_vars

\* the permission set the specification prescribes for the default role
DefaultRoleSet ==
    IF config.DEFAULT_ROLE \in DOMAIN config.ROLE_PERMISSIONS
    THEN config.ROLE_PERMISSIONS[config.DEFAULT_ROLE] ELSE {}

\* the union of the permission sets of the recognized roles of a role list
RecognizedUnion(roles) ==
    UNION {config.ROLE_PERMISSIONS[r] : r \in roles \cap DOMAIN config.ROLE_PERMISSIONS}

\* the session holds a user that a callback mapped from provider roles
MappedUser == HasUser(session) /\ session.user[1].provider # "none"

\* C9 as stated: a role list with no role in the role map is mapped to the
\* default role's permission set, which is never empty when a default role
\* is configured.
C9_DefaultNeverEmpty ==
    (MappedUser /\ session.user[1].roles \cap DOMAIN config.ROLE_PERMISSIONS = {})
    => /\ session.user[1].permissions = DefaultRoleSet
       /\ config.DEFAULT_ROLE \in DOMAIN config.ROLE_PERMISSIONS
             => session.user[1].permissions # {}

\* C9 amended: a role list with no role in the role map is mapped to the
\* default role's permission set; the result is empty exactly when the
\* default role is missing from the role map or is mapped to no permission.
C9_DefaultFallback ==
    (MappedUser /\ session.user[1].roles \cap DOMAIN config.ROLE_PERMISSIONS = {})
    => /\ session.user[1].permissions = DefaultRoleSet
       /\ session.user[1].permissions = {}
             <=> \/ config.DEFAULT_ROLE \notin DOMAIN config.ROLE_PERMISSIONS
                 \/ config.ROLE_PERMISSIONS[config.DEFAULT_ROLE] = {}

C9_Witness ==
    /\ MappedUser
    /\ req.op = "callback"
    /\ session.user[1].roles = {"Guest"}
    /\ config.DEFAULT_ROLE = "S3-Editor"
    /\ session.user[1].permissions = {"view", "write"}

\* C10: the mapping is a fallback, not a merge: a non-empty union of the
\* recognized roles' permissions is the result as it is, and an empty union
\* (no role recognized, or only roles that grant nothing) gives exactly the
\* default role's set.
C10_FallbackNotMerge ==
    MappedUser
    => session.user[1].permissions =
          IF RecognizedUnion(session.user[1].roles) # {}
          THEN RecognizedUnion(session.user[1].roles)
          ELSE DefaultRoleSet

C10_Witness ==
    /\ MappedUser
    /\ session.user[1].roles = {"S3-None"}
    /\ "S3-None" \in DOMAIN config.ROLE_PERMISSIONS
    /\ config.DEFAULT_ROLE = "S3-Admin"
    /\ session.user[1].permissions = {"view", "write", "delete"}

\* the operations that run behind the gate and read the session's user
SessionReaders == ProtectedOps \cup ObjectRoutes \cup {"get_user", "elevate"}

\* no step of a request that reads the session changes the user record of a
\* session that holds a user, and the only request that replaces the record
\* of a logged-in user by a different one is a callback that succeeds
PermissionsOnlyRead ==
    /\ (StepOf(SessionReaders) /\ HasUser(session))
          => session'.user = session.user
    /\ (/\ HasUser(session)
        /\ HasUser(session')
        /\ session'.user # session.user)
          => (Handles("callback") /\ resp'.status = 302)

\* C11: the permission set of a session is written by the authentication
\* callback and afterwards only read: no step of a browse, upload,
\* create-folder, rename, delete-folder, delete-multiple, get-user or
\* PIM-elevate request (or of a request on a bucket or object by name), its
\* arrival, its calls and its answer, changes the user record of a session
\* that holds a user, roles and permissions included, and the only request
\* that replaces the record of a logged-in user by a different one is a
\* callback that succeeds.
C11_PermissionsOnlyRead == [][PermissionsOnlyRead]_vars

\* the same on a session store: there the statement holds
C11_OnSessionStore == [][~Cookie => PermissionsOnlyRead]_vars

\* the directory entries of a browse answer that carry the given name
DirEntries(r, name) ==
    {i \in 1..Len(r.items) : r.items[i].type = "directory" /\ r.items[i].name = name}

\* C12: createFolder(path, name) is idempotent: a call succeeds and leaves
\* one empty-body object at prefix + name + '/' and every other object as it
\* was, a second call with the same arguments succeeds and leaves the store
\* unchanged, and a browse of the parent path that follows a successful
\* createFolder shows the folder exactly once.
C12_CreateFolderIdempotent ==
    [][/\ (/\ Handles("create_folder")
           /\ req'.fault = 0
           /\ Strip(req'.path) # <<>>
           /\ Strip(req'.folderName) # <<>>
           /\ ParsePath(Strip(req'.path)).bucket_name \in DOMAIN store)
          => LET pp == ParsePath(Strip(req'.path))
                 key == pp.prefix \o Strip(req'.folderName) \o <<Slash>>
             IN /\ resp'.status = 200
                /\ store' = [store EXCEPT ![pp.bucket_name] = PutSorted(@, key, <<>>)]
                /\ (/\ req.op = "create_folder"
                    /\ resp.status = 200
                    /\ req.path = req'.path
                    /\ req.folderName = req'.folderName) => store' = store
       /\ (/\ Handles("browse")
           /\ req.op = "create_folder"
           /\ resp.status = 200
           /\ req'.path = req.path)
          => /\ resp'.status = 200
             /\ Cardinality(DirEntries(resp', Strip(req.folderName))) = 1]_vars

\* C13: a successful browse of a folder never shows the folder's own marker
\* (the object whose key is the browsed prefix) as a file entry: no file entry
\* has an empty name or the browsed folder's own key as its path, and every
\* other object directly under the prefix is shown.  A folder that holds
\* nothing but its marker browses to an empty item list.
C13_MarkerNeverListed ==
    [][(Handles("browse") /\ resp'.status = 200 /\ ~NamesBucketOnly(req'.path))
       => LET bucket == PathBucket(req'.path)
              prefix == PathFolderPrefix(req'.path)
              files == {i \in DOMAIN resp'.items : resp'.items[i].type = "file"}
              direct == {k \in KeysUnder(store, bucket, prefix) :
                            FirstSlash(SubSeq(k, Len(prefix) + 1, Len(k))) = 0}
          IN /\ \A i \in files :
                   /\ resp'.items[i].name # <<>>
                   /\ resp'.items[i].path # bucket \o <<Slash>> \o prefix
             /\ {resp'.items[i].path : i \in files}
                   = {bucket \o <<Slash>> \o k : k \in direct \ {prefix}}
             /\ KeysUnder(store, bucket, prefix) = {prefix}
                   => resp'.items = <<>>]_vars

\* a folder holding only its marker was browsed and came back empty
C13_Witness ==
    /\ resp.op = "browse" /\ resp.status = 200
    /\ req.path = P_docs_Q1
    /\ KeysUnder(store, S_docs, S_Q1 \o <<Slash>>) = {S_Q1 \o <<Slash>>}
    /\ resp.items = <<>>
    /\ Len(log) = 1

\* every directory entry precedes every file entry and, within each group,
\* the names ascend when compared without regard to case
ListingOrdered(items) ==
    \A i, j \in DOMAIN items :
        i < j => /\ ~(items[i].type = "file" /\ items[j].type = "directory")
                 /\ items[i].type = items[j].type
                      => ~KeyLess(Lower(items[j].name), Lower(items[i].name))

\* C14: every listing returned by browse, at the virtual root as well as
\* inside a bucket or folder, has its directory entries before its file
\* entries and, within each group, names in case-insensitive ascending order.
C14_ListingSorted ==
    (resp.op = "browse" /\ resp.status = 200) => ListingOrdered(resp.items)

\* the same for the listings of a bucket or folder only
C14_SortedInsideBuckets ==
    (resp.op = "browse" /\ resp.status = 200 /\ Strip(req.path) # <<>>)
    => ListingOrdered(resp.items)

\* C15: a browse of a path whose first segment names a bucket that does not
\* exist is answered 404 with an error body, not with a generic server
\* failure.
C15_BrowseMissingBucketNotFound ==
    (/\ resp.op = "browse"
     /\ resp.status # 401 /\ resp.status # 403
     /\ Strip(req.path) # <<>>
     /\ PathBucket(req.path) \notin DOMAIN store)
    => resp.status = 404 /\ resp.error # ""

\* the path is a single non-empty segment once its slashes are trimmed
BucketOnly(path) == IsString(path) /\ Strip(path) # <<>> /\ NamesBucketOnly(path)

\* no call of a deleteMultiple request is issued for a path that names only
\* a bucket: every call has the bucket and key of one of the other paths,
\* every object that disappears lies under the key of one of the other paths,
\* and when there is no other path the request issues no call and changes
\* nothing
NoCallForBuckets(paths) ==
    LET others == {j \in DOMAIN paths :
                      IsString(paths[j]) /\ ~NamesBucketOnly(paths[j])}
        KeyOf(j) == Join(Tail(Split(Strip(paths[j]))))
        st0 == StoreBefore
    IN /\ \A c \in DOMAIN log' : \E j \in others :
             /\ log'[c].Bucket = PathBucket(paths[j])
             /\ log'[c].Key = KeyOf(j)
       /\ \A b \in DOMAIN st0 :
             \A k \in KeysUnder(st0, b, <<>>) \ KeysUnder(store', b, <<>>) :
                 \E j \in others : /\ b = PathBucket(paths[j])
                                    /\ StartsWith(k, KeyOf(j))
       /\ others = {} => log' = <<>> /\ store' = st0

\* the answer carries the error "Cannot delete buckets" for every path that
\* names only a bucket
BucketErrorsAnswered(paths) ==
    \A i \in DOMAIN paths : BucketOnly(paths[i]) =>
        \E e \in DOMAIN resp'.errors :
            resp'.errors[e] = [path |-> Strip(paths[i]),
                               error |-> "Cannot delete buckets"]

\* deleteFolder and rename answer a path that names only a bucket with 400
\* and an error, issue no object-store call and leave the store as it was
BucketPathRejected ==
    /\ (Handles("delete_folder") /\ BucketOnly(req'.path))
         => /\ resp'.status = 400 /\ resp'.error # ""
            /\ log' = <<>> /\ store' = StoreBefore
    /\ (Handles("rename") /\ BucketOnly(req'.oldPath) /\ IsString(req'.newName))
         => /\ resp'.status = 400 /\ resp'.error # ""
            /\ log' = <<>> /\ store' = StoreBefore

\* C16: a path that names only a bucket is never acted on
\* destructively.  deleteFolder and rename answer it with 400 and an error,
\* issue no object-store call and leave the store as it was.  The answer of
\* deleteMultiple carries the error "Cannot delete buckets" for it, and no
\* call of the request is issued for it.
C16_BucketErrorAlwaysRecorded ==
    [][/\ BucketPathRejected
       /\ (Handles("delete_multiple") /\ req'.paths # NoJsonObject)
            => /\ BucketErrorsAnswered(req'.paths)
               /\ NoCallForBuckets(req'.paths)]_vars

\* what holds of every request: the same, the per-path error being in the
\* answer of a deleteMultiple that is answered 200; a deleteMultiple that is
\* answered 500 carries no per-path error at all, and no call is issued for
\* the bucket path in that case either
C16_BucketOnlyNeverActedOn ==
    [][/\ BucketPathRejected
       /\ (Handles("delete_multiple") /\ req'.paths # NoJsonObject)
            => /\ resp'.status = 200 => BucketErrorsAnswered(req'.paths)
               /\ resp'.status # 200 => resp'.errors = <<>>
               /\ NoCallForBuckets(req'.paths)]_vars

\* deleteFolder was asked for "/docs/" on a bucket that holds objects: it
\* refused without a call and the objects are still there
C16_Witness ==
    /\ req.op = "delete_folder" /\ req.path = P_docs_slashed
    /\ resp.status = 400 /\ resp.error = "Cannot delete buckets"
    /\ log = <<>>
    /\ Cardinality(KeysUnder(store, S_docs, <<>>)) >= 2

\* deleteMultiple was given the bucket docs and the file docs/a.txt: the file
\* is gone, the bucket's other object is there and the answer carries the
\* error for the bucket
C16_WitnessMultiple ==
    /\ req.op = "delete_multiple" /\ req.paths = <<P_docs, P_docs_a_txt>>
    /\ resp.status = 200 /\ resp.count = <<1>>
    /\ resp.errors = <<[path |-> P_docs, error |-> "Cannot delete buckets"]>>
    /\ Len(log) = 1
    /\ KeysUnder(store, S_docs, <<>>) = {S_reports_q1_csv}

\* a logout leaves nothing in the session, and only a logout removes a user
LogoutClears ==
    /\ Handles("logout") => session' = EmptySession
    /\ (HasUser(session) /\ ~HasUser(session')) => Handles("logout")

\* a user enters a session without one only by a successful callback
OnlyCallbackCreates ==
    (~HasUser(session) /\ HasUser(session'))
    => (Handles("callback") /\ resp'.status = 302)

\* a request that needs a login, made on a session without a user, is
\* answered 401 and leaves the session without a user
NoUserRefused ==
    (Arrives(SessionReaders) /\ ~HasUser(session))
    => (/\ nreq' = nreq + 1 /\ inflight' = inflight
        /\ resp'.status = 401 /\ ~HasUser(session') /\ store' = store)

\* a callback that stores a user stores exactly the record built from this
\* login: nothing of an earlier record survives
ReloginReplaces ==
    (Handles("callback") /\ resp'.status = 302 /\ session'.user # session.user)
    => session'.user = <<CallbackUser(req'.roles)>>

\* the life of a session as the steps of the requests keep it
SessionLife == LogoutClears /\ OnlyCallbackCreates /\ NoUserRefused /\ ReloginReplaces

\* C17, outside local development mode: a user session exists only between
\* a successful callback and the next logout.  Logout empties the session and
\* only a logout removes a user, a user enters a session only by a callback
\* that succeeds, every request that needs a login is answered 401 while the
\* session holds no user, and a re-login replaces the stored user record
\* wholesale.
C17_SessionLife == [][~config.LOCAL_DEV_MODE => SessionLife]_vars

\* the same on a session store: there the statement holds
C17_OnSessionStore == [][(~config.LOCAL_DEV_MODE /\ ~Cookie) => SessionLife]_vars

ListedKeys(f) == {f.objects_to_delete[n] : n \in DOMAIN f.objects_to_delete}

\* C18: deleteFolder deletes only keys returned by its own listing.  Whatever
\* requests are served between its calls, an object disappears from the store
\* only when a folder deletion that listed its key issues a delete call; a
\* deletion that answers success reports the number of keys it listed, and
\* every object under the prefix that its listing did not return is still
\* there when it answers.
C18_DeletesOnlyListedKeys ==
    [][/\ \A b \in DOMAIN store :
            store'[b] # store[b] =>
            \A k \in KeysUnder(store, b, <<>>) \ KeysUnder(store', b, <<>>) :
                \E w \in DOMAIN inflight :
                    /\ inflight[w].req.op = "delete_folder"
                    /\ inflight[w].pc = "delete"
                    /\ inflight[w].bucket_name = b
                    /\ k \in ListedKeys(inflight[w])
       /\ (Handles("delete_folder") /\ resp'.status = 200 /\ resp'.count # NoCount)
            => \E w \in DOMAIN inflight :
                  LET f == inflight[w] IN
                  /\ inflight' = SubSeq(inflight, 1, w - 1)
                                    \o SubSeq(inflight, w + 1, Len(inflight))
                  /\ f.req = req'
                  /\ resp'.count = <<Len(f.objects_to_delete)>>
                  /\ KeysUnder(store', f.bucket_name, f.prefix)
                        = KeysUnder(store, f.bucket_name, f.prefix) \ ListedKeys(f)]_vars

\* the request answered last is a folder deletion that reported success and
\* a positive count, and objects exist under its prefix: they were stored
\* between its listing and its answer
C18_Witness ==
    /\ req.op = "delete_folder"
    /\ resp.status = 200 /\ resp.count # NoCount /\ resp.count[1] >= 1
    /\ inflight = <<>>
    /\ KeysUnder(store, PathBucket(req.path), PathFolderPrefix(req.path)) # {}

\* C19: path normalization is idempotent.  For every path given to browse or
\* upload, parsing the trimmed path into (bucket, prefix), writing the pair
\* back as a path and parsing that again gives the same pair; the prefix is
\* empty exactly when the trimmed path has no '/', and otherwise ends with
\* exactly one '/'; and the pair is the one the handler hands to the object
\* store.
C19_NormalizationIdempotent ==
    req.op \in {"browse", "upload"}
    => LET pp == ParsePath(Strip(req.path))
           again == ParsePath(Strip(Serialize(pp)))
       IN /\ again = pp
          /\ pp.prefix = <<>> <=> FirstSlash(Strip(req.path)) = 0
          /\ pp.prefix # <<>>
               => /\ EndsWithSlash(pp.prefix)
                  /\ ~EndsWithSlash(SubSeq(pp.prefix, 1, Len(pp.prefix) - 1))
          /\ \A c \in DOMAIN log :
               /\ log[c].op = "list_objects_v2"
                    => log[c].Bucket = pp.bucket_name /\ log[c].Key = pp.prefix
               /\ log[c].op = "put_object"
                    => /\ log[c].Bucket = pp.bucket_name
                       /\ log[c].Key = pp.prefix \o req.files[1].filename

\* browse was given "/a/b/" and listed bucket "a" with prefix "b/"
C19_Witness ==
    /\ req.op = "browse"
    /\ req.path = <<Slash, 97, Slash, 98, Slash>>
    /\ resp.status = 200
    /\ Len(log) = 1 /\ log[1].Bucket = <<97>> /\ log[1].Key = <<98, Slash>>
    /\ Len(resp.items) = 1

\* the request is a rename that passes validation: it reaches the object store
ReachesStore(r) ==
    /\ WellFormed(r)
    /\ Strip(r.oldPath) # <<>> /\ Strip(r.newName) # <<>>
    /\ ~NamesBucketOnly(r.oldPath)

\* old and new key of a rename request
OldKey(r) == Join(Tail(Split(Strip(r.oldPath))))

NewKey(r) ==
    LET old_parts == Split(Strip(r.oldPath)) IN
    Join(Append(Tail(SubSeq(old_parts, 1, Len(old_parts) - 1)), Strip(r.newName)))

\* the store refuses the copy: an injected error, no such bucket, no such
\* key, or a copy of the object onto itself
CopyFails(st, r) ==
    \/ r.fault = 1
    \/ PathBucket(r.oldPath) \notin DOMAIN st
    \/ OldKey(r) \notin KeysUnder(st, PathBucket(r.oldPath), <<>>)
    \/ NewKey(r) = OldKey(r)

\* the rename answered success
Renamed == Handles("rename") /\ ReachesStore(req') /\ resp'.status = 200

\* C20: rename of a single object is copy-then-delete in that order: the
\* delete is issued second and only after a copy that succeeded; if the copy
\* fails the old object is untouched, the store is as it was and an error is
\* returned; if the delete fails the content is at the old and at the new
\* key; and after a successful rename the old key is gone and the new key
\* holds the old content.
C20_CopyThenDelete ==
    [][/\ (Handles("rename") /\ ReachesStore(req'))
            => LET st0 == StoreBefore
                   b == PathBucket(req'.oldPath)
                   old_key == OldKey(req')
                   new_key == NewKey(req')
                   copied == [st0 EXCEPT
                                 ![b] = PutSorted(@, new_key, BodyOf(@, old_key))]
               IN /\ Len(log') >= 1 /\ Len(log') <= 2
                  /\ log'[1] = CallRec("copy_object", b, new_key, 1)
                  /\ Len(log') = 2 => log'[2] = CallRec("delete_object", b, old_key, 1)
                  /\ IF CopyFails(st0, req')
                     THEN resp'.status = 500 /\ Len(log') = 1 /\ store' = st0
                     ELSE /\ Len(log') = 2
                          /\ IF req'.fault = 2
                             THEN /\ resp'.status = 500
                                  /\ store' = copied
                                  /\ {old_key, new_key} \subseteq KeysUnder(store', b, <<>>)
                                  /\ BodyOf(store'[b], old_key) = BodyOf(st0[b], old_key)
                                  /\ BodyOf(store'[b], new_key) = BodyOf(st0[b], old_key)
                             ELSE /\ resp'.status = 200
                                  /\ store' = [copied EXCEPT
                                                  ![b] = RemoveKeys(@, {old_key})]
       /\ Renamed
            => LET b == PathBucket(req'.oldPath) IN
               /\ OldKey(req') \notin KeysUnder(store', b, <<>>)
               /\ NewKey(req') \in KeysUnder(store', b, <<>>)
               /\ BodyOf(store'[b], NewKey(req'))
                     = BodyOf(StoreBefore[b], OldKey(req'))]_vars

\* the delete of docs/a.txt failed after its copy to docs/Q1 succeeded: the
\* content is at both keys and the answer is an error
C20_Witness ==
    /\ req.op = "rename" /\ req.oldPath = P_docs_a_txt /\ req.newName = S_Q1
    /\ req.fault = 2
    /\ resp.status = 500
    /\ Len(log) = 2 /\ log[2].op = "delete_object"
    /\ HasKey(store[S_docs], S_a_txt) /\ HasKey(store[S_docs], S_Q1)
    /\ BodyOf(store[S_docs], S_Q1) = BodyOf(store[S_docs], S_a_txt)

\* positions of the submitted files that have a filename
ValidFiles(r) ==
    {i \in DOMAIN SubmittedFiles(r) : SubmittedFiles(r)[i].filename # <<>>}

\* the c-th of them
NthValid(r, c) ==
    CHOOSE i \in ValidFiles(r) : Cardinality({j \in ValidFiles(r) : j < i}) = c - 1

\* the key the file at position i of the request is to be written to
UploadKey(r, i) ==
    ParsePath(Strip(r.path)).prefix
        \o (IF i \in DOMAIN r.relative_paths /\ r.relative_paths[i] # <<>>
            THEN r.relative_paths[i] ELSE SubmittedFiles(r)[i].filename)

\* C21: upload writes the file at position i of the submitted list to
\* prefix + relativePaths[i] when a non-empty relative path is supplied at
\* position i and to prefix + filename otherwise; files without a filename are
\* skipped; the puts are issued in the order of the list; an upload that
\* answers success has put every file that has a filename, reports their
\* number as count, and leaves at each key the content of the last file
\* written to it and every other object as it was; an upload to the virtual
\* root is rejected without any put.
C21_UploadKeys ==
    [][Handles("upload")
       => LET r == req'
              st0 == StoreBefore
              b == ParsePath(Strip(r.path)).bucket_name
              valid == ValidFiles(r)
              keys == {UploadKey(r, i) : i \in valid}
          IN IF Strip(r.path) = <<>>
             THEN resp'.status = 400 /\ log' = <<>> /\ store' = st0
             ELSE /\ Len(log') <= Cardinality(valid)
                  /\ \A c \in DOMAIN log' :
                        log'[c] = CallRec("put_object", b, UploadKey(r, NthValid(r, c)), 1)
                  /\ valid = {} => resp'.status = 400
                  /\ resp'.status = 200
                       => /\ valid # {}
                          /\ Len(log') = Cardinality(valid)
                          /\ resp'.count = <<Cardinality(valid)>>
                          /\ Len(resp'.files) = Cardinality(valid)
                          /\ \A o \in DOMAIN st0 \ {b} : store'[o] = st0[o]
                          /\ KeysUnder(store', b, <<>>) = KeysUnder(st0, b, <<>>) \cup keys
                          /\ \A k \in KeysUnder(store', b, <<>>) :
                                IF k \in keys
                                THEN \E i \in valid :
                                        /\ UploadKey(r, i) = k
                                        /\ \A j \in valid : UploadKey(r, j) = k => j <= i
                                        /\ BodyOf(store'[b], k) = SubmittedFiles(r)[i].content
                                ELSE BodyOf(store'[b], k) = BodyOf(st0[b], k)]_vars

\* a nameless file and the file x were submitted with relative paths "" and
\* "sub/x": one object was put, at sub/x, and the count is 1
C21_Witness ==
    /\ req.op = "upload" /\ req.path = P_docs
    /\ req.files = <<File(S_empty, B_new), File(S_x, B_x)>>
    /\ req.relative_paths = <<S_empty, S_sub_x>>
    /\ resp.status = 200 /\ resp.count = <<1>>
    /\ Len(log) = 1 /\ log[1].Key = S_sub_x
    /\ HasKey(store[S_docs], S_sub_x) /\ BodyOf(store[S_docs], S_sub_x) = B_x
    /\ ~HasKey(store[S_docs], S_x)

\* the segments of a path: none for the virtual root
Segments(path) == IF Strip(path) = <<>> THEN <<>> ELSE Split(Strip(path))

\* C22: a successful browse of a path with n segments answers a breadcrumb
\* chain of n + 1 entries: the first is the root entry "Home" with the empty
\* path, the k-th entry after it is labelled with the k-th segment and its
\* path is the first k segments joined by '/', so that the path of the last
\* entry is the trimmed browsed path.
C22_Breadcrumbs ==
    (resp.op = "browse" /\ resp.status = 200)
    => LET segs == Segments(req.path)
           bc == resp.breadcrumbs
       IN /\ Len(bc) = Len(segs) + 1
          /\ bc[1] = [name |-> HomeName, path |-> <<>>]
          /\ \A k \in DOMAIN segs :
                /\ bc[k + 1].name = segs[k]
                /\ bc[k + 1].path = Join(SubSeq(segs, 1, k))
          /\ bc[Len(bc)].path = Strip(req.path)

\* "a//b" was browsed: three segments, the second one empty, four entries
C22_Witness ==
    /\ req.op = "browse" /\ req.path = <<97, Slash, Slash, 98>>
    /\ resp.status = 200
    /\ Len(resp.breadcrumbs) = 4
    /\ resp.breadcrumbs[3] = [name |-> <<>>, path |-> <<97, Slash>>]
    /\ resp.breadcrumbs[4].path = req.path

\* the contents stored in a store, whatever their keys
BodiesOf(st) == UNION {{st[b][i].Body : i \in 1..Len(st[b])} : b \in DOMAIN st}

\* C23: under every interleaving of concurrent file renames in one bucket,
\* none of them to the name the object already has, content that was stored
\* before the requests started is still stored under at least one key once
\* no request is in progress.
C23_ContentSurvivesRenames ==
    inflight = <<>> => BodiesOf(DocsStore) \subseteq BodiesOf(store)

\* the rename is of a file to the name it already has, and the file exists
RenameToItself ==
    /\ Handles("rename") /\ ReachesStore(req')
    /\ NewKey(req') = OldKey(req')
    /\ PathBucket(req'.oldPath) \in DOMAIN store
    /\ HasKey(StoreBefore[PathBucket(req'.oldPath)], OldKey(req'))

\* C24: a file rename whose newName equals the current leaf name does not
\* remove the object: the content is stored under its key after the request as
\* it was before.
C24_RenameToItselfKeepsObject ==
    [][RenameToItself
         => LET b == PathBucket(req'.oldPath) IN
            /\ HasKey(store'[b], OldKey(req'))
            /\ BodyOf(store'[b], OldKey(req'))
                  = BodyOf(StoreBefore[b], OldKey(req'))]_vars

\* docs/a.txt was renamed to a.txt: the store refused the copy, no delete was
\* issued, the answer is an error and the object is stored as before
C24_Witness ==
    /\ req.op = "rename" /\ req.oldPath = P_docs_a_txt /\ req.newName = S_a_txt
    /\ req.fault = 0
    /\ resp.status = 500
    /\ Len(log) = 1 /\ log[1] = CallRec("copy_object", S_docs, S_a_txt, 1)
    /\ HasKey(store[S_docs], S_a_txt) /\ BodyOf(store[S_docs], S_a_txt) = B_a

\* every object of the store st0 other than those at the keys in `but` of
\* bucket b is stored after the step as it was in st0
OthersUnchanged(st0, b, but) ==
    /\ DOMAIN store' = DOMAIN st0
    /\ \A b2 \in DOMAIN st0 :
          \A i \in 1..Len(st0[b2]) :
             (b2 # b \/ st0[b2][i].Key \notin but)
                => /\ HasKey(store'[b2], st0[b2][i].Key)
                   /\ BodyOf(store'[b2], st0[b2][i].Key) = st0[b2][i].Body

\* C25: a file rename never destroys another object: an object that already
\* exists at the new key (a key other than the old one) keeps its content, and
\* every object whose key is neither the old nor the new key is unchanged.
C25_RenameDestroysNoOtherObject ==
    [][(Handles("rename") /\ ReachesStore(req'))
         => LET b == PathBucket(req'.oldPath)
                old_key == OldKey(req')
                new_key == NewKey(req')
                st0 == StoreBefore
            IN /\ OthersUnchanged(st0, b, {old_key, new_key})
               /\ (b \in DOMAIN st0 /\ new_key # old_key /\ HasKey(st0[b], new_key))
                    => /\ HasKey(store'[b], new_key)
                       /\ BodyOf(store'[b], new_key) = BodyOf(st0[b], new_key)]_vars

\* the part of C25 about the objects at neither key
C25_RenameFrame ==
    [][(Handles("rename") /\ ReachesStore(req'))
         => OthersUnchanged(StoreBefore, PathBucket(req'.oldPath),
                            {OldKey(req'), NewKey(req')})]_vars

\* the keys of the bucket that lie in the folder the path names
FolderKeys(st, path) ==
    KeysUnder(st, PathBucket(path), PathFolderPrefix(path))

\* C26: deleteFolder(bucket/sub) changes only objects of that bucket whose key
\* starts with 'sub/': every other bucket, every sibling whose key merely
\* shares the leading characters and every object of the parent folders is
\* stored afterwards as it was before; a path that names no folder changes
\* nothing.
C26_DeleteFolderFrame ==
    [][Handles("delete_folder")
         => IF Strip(req'.path) = <<>> \/ NamesBucketOnly(req'.path)
            THEN store' = StoreBefore
            ELSE OthersUnchanged(StoreBefore, PathBucket(req'.path),
                                 FolderKeys(StoreBefore, req'.path))]_vars

\* docs/reports was deleted from the store with the sibling reports2/x and the
\* bucket logs: the folder's three objects are gone, a.txt, reports2/x and
\* logs/x are stored as before
C26_Witness ==
    /\ req.op = "delete_folder" /\ req.path = P_docs_reports
    /\ resp.status = 200 /\ resp.count = <<3>>
    /\ KeysUnder(store, S_docs, <<>>) = {S_a_txt, S_reports2_x}
    /\ S_logs \in DOMAIN store /\ KeysUnder(store, S_logs, <<>>) = {S_x}

\* a request is in its listing loop
Listing == \E w \in DOMAIN inflight : inflight[w].pc = "list"

\* the sequence holds every element of S, each once
ExactlyOnce(seq, S) ==
    /\ Len(seq) = Cardinality(S)
    /\ {seq[i] : i \in 1..Len(seq)} = S

\* list pages n keys come in
PagesOf(n) == IF n = 0 THEN 1 ELSE (n + S3MaxKeys - 1) \div S3MaxKeys

\* the step is one of the request in the frame at position w: the frame is
\* changed in place, or it leaves as the request is answered
Acts(w) ==
    \/ Len(inflight') = Len(inflight) /\ inflight'[w] # inflight[w]
    \/ /\ Len(inflight') < Len(inflight)
       /\ inflight' = SubSeq(inflight, 1, w - 1)
                         \o SubSeq(inflight, w + 1, Len(inflight))

\* the step is one turn of the listing loop of the request in frame w
ListsPage(w) == inflight[w].pc = "list" /\ Acts(w)

\* the keys the request in frame w has collected when the step is over:
\* none when it is answered in the step
CollectedAfter(w) ==
    IF Len(inflight') < Len(inflight) THEN <<>> ELSE inflight'[w].objects_to_delete

\* the step ends the listing loop of the request in frame w
EndsListing(w) ==
    /\ ListsPage(w)
    /\ Len(inflight') = Len(inflight) => inflight'[w].pc # "list"

\* one turn of the listing loop of the request in frame w: the page is the
\* one the store holds after the frame's token when the call is made, its
\* keys are appended to the keys collected so far, and the loop goes round
\* again with the page's token exactly when the page is truncated
ListingStep(w) ==
    LET f == inflight[w] IN
    IF f.bucket_name \notin DOMAIN store
    THEN Handles("delete_folder") /\ resp'.status = 500
    ELSE \E page \in {ListPage(store[f.bucket_name], f.prefix, f.continuation_token)} :
         \E collected \in {f.objects_to_delete \o KeysOf(page.Contents)} :
            /\ CollectedAfter(w) = collected
            /\ IF page.IsTruncated
               THEN /\ Len(inflight') = Len(inflight)
                    /\ inflight'[w].pc = "list"
                    /\ inflight'[w].continuation_token = page.NextContinuationToken
                    /\ inflight'[w].continuation_token = collected[Len(collected)]
                    /\ Len(inflight'[w].log) = Len(f.log) + 1
               ELSE IF collected = <<>>
               THEN /\ Handles("delete_folder")
                    /\ resp'.status = 200 /\ resp'.count = NoCount
                    /\ Len(log') = Len(f.log) + 1
               ELSE /\ Len(inflight') = Len(inflight)
                    /\ inflight'[w].pc = "delete"
                    /\ Len(inflight'[w].log) = Len(f.log) + 1

\* the keys a folder deletion has collected ascend strictly, so that none is
\* collected twice, and each of them starts with the prefix
CollectedOnce ==
    \A w \in DOMAIN inflight :
        inflight[w].req.op = "delete_folder" =>
            LET c == inflight[w].objects_to_delete IN
            /\ \A i \in 1..(Len(c) - 1) : KeyLess(c[i], c[i + 1])
            /\ \A i \in 1..Len(c) : StartsWith(c[i], inflight[w].prefix)

\* C27 as stated: the listing loop of deleteFolder terminates and collects
\* every key under the prefix exactly once: it requests the next page with the
\* token of the previous one as long as the page is truncated, stops at the
\* first page that is not, and a request that is listing always comes to the
\* end of its listing.  The keys under the prefix are read as those the store
\* holds when the request arrives or as those it holds when the listing ends.
C27_ListingCollectsAll ==
    /\ [][\A w \in DOMAIN inflight :
             /\ ListsPage(w) => ListingStep(w)
             /\ EndsListing(w) =>
                   LET f == inflight[w] IN
                   \/ ExactlyOnce(CollectedAfter(w),
                                  KeysUnder(f.store0, f.bucket_name, f.prefix))
                   \/ ExactlyOnce(CollectedAfter(w),
                                  KeysUnder(store, f.bucket_name, f.prefix))]_vars
    /\ Listing ~> ~Listing

\* C27 amended: the listing loop of deleteFolder requests the next page with
\* the token of the previous one as long as the page is truncated and stops at
\* the first page that is not; it collects the keys of the pages in their
\* order, none of them twice, and a request that is listing always comes to
\* the end of its listing.  When no other request has changed the store since
\* the request arrived, it has collected every key under the prefix exactly
\* once, in one page per 1000 keys.  When other requests have deleted objects
\* meanwhile, it has collected every key that was under the prefix from its
\* arrival to the end of its listing, and beside them only keys that were
\* under the prefix when it arrived.
C27_ListingTerminates ==
    /\ [][\A w \in DOMAIN inflight :
             /\ ListsPage(w) => ListingStep(w)
             /\ EndsListing(w) =>
                   LET f == inflight[w] IN
                   \E before \in {KeysUnder(f.store0, f.bucket_name, f.prefix)} :
                   \E now \in {KeysUnder(store, f.bucket_name, f.prefix)} :
                   \E got \in {{CollectedAfter(w)[i] : i \in 1..Len(CollectedAfter(w))}} :
                      /\ before \cap now \subseteq got
                      /\ got \subseteq before
                      /\ store = f.store0 =>
                            /\ ExactlyOnce(CollectedAfter(w), before)
                            /\ Len(f.log) + 1 = PagesOf(Cardinality(before))]_vars
    /\ []CollectedOnce
    /\ Listing ~> ~Listing

\* the listing of docs/big with 2001 objects has ended after three pages with
\* all 2001 keys collected
C27_Witness ==
    /\ inflight # <<>>
    /\ inflight[1].pc = "delete" /\ inflight[1].req.path = P_docs_big
    /\ Len(inflight[1].log) = 3
    /\ ExactlyOnce(inflight[1].objects_to_delete, KeysUnder(store, S_docs, S_big \o <<Slash>>))
    /\ Len(inflight[1].objects_to_delete) = 2 * S3MaxKeys + 1

\* a listing of docs/big has ended with the 1000 keys of its first page only:
\* another deletion removed the rest while it waited for its second page
C27_WitnessInterleaved ==
    /\ Len(inflight) = 1
    /\ inflight[1].pc = "delete" /\ inflight[1].req.path = P_docs_big
    /\ Len(inflight[1].log) = 2
    /\ Len(inflight[1].objects_to_delete) = S3MaxKeys
    /\ Cardinality(KeysUnder(inflight[1].store0, S_docs, S_big \o <<Slash>>)) = 2 * S3MaxKeys + 1
    /\ KeysUnder(store, S_docs, S_big \o <<Slash>>) = {}
    /\ req.op = "delete_folder" /\ resp.status = 200

InvalidState == "Invalid state parameter"

\* the states that login attempts before the latest one were given
EarlierStates == {<<k>> : k \in 1..(nstate - 1)}

\* the callbacks that have passed the state check and wait for the identity
\* provider
WaitingCallbacks == {w \in DOMAIN inflight : inflight[w].req.op = "callback"}

\* the stored state is the one of the latest login attempt
StoredStateLatest ==
    session.oauth_state = NoState \/ (nstate >= 1 /\ session.oauth_state = <<nstate>>)

\* what a step does to the state when a callback arrives or a login is
\* answered
StateSingleUse ==
    /\ (Arrives({"callback"}) /\ ~config.LOCAL_DEV_MODE)
          => IF Arriving.state # NoState /\ Arriving.state = session.oauth_state
             THEN ArrivedSession.oauth_state = NoState
             ELSE RefusedInvalidState
    /\ (/\ Arrives({"callback"}) /\ ~config.LOCAL_DEV_MODE
        /\ \/ req.op = "callback" /\ Arriving.state = req.state
           \/ \E w \in WaitingCallbacks : Arriving.state = inflight[w].req.state)
          => RefusedInvalidState
    /\ (Arrives({"callback"}) /\ ~config.LOCAL_DEV_MODE
          /\ (session.oauth_state = NoState \/ Arriving.state \in EarlierStates))
          => RefusedInvalidState
    /\ (Handles("login") /\ session'.oauth_state # session.oauth_state)
          => /\ nstate' = nstate + 1
             /\ session'.oauth_state = <<nstate'>>

\* C28: the CSRF state of a login attempt is single-use and only the latest
\* one is valid.  A callback that carries the stored state passes the state
\* check and removes the state from its session, whatever becomes of it
\* afterwards; every other callback fails with InvalidState and changes
\* nothing; a callback that carries the state of a callback that has passed
\* the check and is waiting for the identity provider, or the state of the
\* callback answered just before it, fails with InvalidState, as does every
\* callback while no state is stored; a login attempt that stores a state
\* stores a fresh one, the stored state is never one of an earlier attempt,
\* and a callback that carries the state of an earlier attempt fails with
\* InvalidState.
C28_StateSingleUseLatestOnly == []StoredStateLatest /\ [][StateSingleUse]_vars

\* the same on a session store: there the statement holds
C28_OnSessionStore ==
    [](~Cookie => StoredStateLatest) /\ [][~Cookie => StateSingleUse]_vars

\* the step puts a user record into the session that was not there before
UserWritten == session'.user # <<>> /\ session'.user # session.user

\* the callback the step answers fails at one of its steps: the state check,
\* the authorization code, the token exchange or the user-info retrieval
CallbackFails ==
    /\ Handles("callback")
    /\ \/ /\ Len(inflight') = Len(inflight)
          /\ req'.state = NoState \/ req'.state # session.oauth_state
       \/ ~req'.has_code
       \/ req'.provider_fault # "none"

\* a user record enters the session only with the answer of a complete
\* callback, and a callback that fails puts no user record into the session
UserOnlyFromCompleteCallback ==
    /\ UserWritten
          => /\ Handles("callback")
             /\ Len(inflight') < Len(inflight)
             /\ inflight[AnsweredFrame].req = req'
             /\ req'.state # NoState
             /\ req'.state = inflight[AnsweredFrame].session0.oauth_state
             /\ req'.has_code
             /\ req'.provider_fault = "none"
             /\ resp'.status = 302
    /\ CallbackFails
          => /\ ~UserWritten
             /\ resp'.status \in {400, 500}

\* C29: outside local development mode a user record is written into the
\* session only by a callback in which the state matched, an authorization
\* code was present and the token exchange and the user-info retrieval both
\* succeeded; a callback that fails at any of these steps leaves the session
\* without a newly established user.
C29_UserOnlyFromCompleteCallback ==
    [][~config.LOCAL_DEV_MODE => UserOnlyFromCompleteCallback]_vars

\* the same on a session store: there the statement holds
C29_OnSessionStore ==
    [][(~config.LOCAL_DEV_MODE /\ ~Cookie) => UserOnlyFromCompleteCallback]_vars

\* the objects of the store, as pairs of bucket and key
StoredObjects(st) ==
    UNION {{<<b, st[b][i].Key>> : i \in 1..Len(st[b])} : b \in DOMAIN st}

\* C30: the deletedCount returned by deleteMultiple equals the number of
\* objects the request removed from the object store, whatever the list of
\* paths and the store content, paths of objects that do not exist included.
C30_DeletedCountIsRemoved ==
    [][(Handles("delete_multiple") /\ resp'.status = 200)
         => /\ StoredObjects(store') \subseteq StoredObjects(StoreBefore)
            /\ resp'.count = <<Cardinality(StoredObjects(StoreBefore)
                                              \ StoredObjects(store'))>>]_vars

====
